---- MODULE Spec2Model ----
\* A model of kmcp (k-mer based metagenomic classification and profiling):
\*   - "kmcp search": the main thread submitting queries, the search engine,
\*     the keep-order serializer and the printer        (src/unnamed/part_002)
\*   - "kmcp profile": the streaming profiler            (src/unnamed/part_001)
\*   - "kmcp index": file checking, the batching walk, block workers and
\*     plane workers                                     (src/kmcp/cmd/index.go)
\* Each command is a specification of its own over the same variables; the
\* variables of the other commands stay at their initial values.
EXTENDS Integers, Sequences, FiniteSets, TLC

\* ------------------------------------------------------------------ bounds
MaxQueries == 3      \* queries read by "kmcp search"
MaxHits == 2         \* matches of one query result
MaxThreads == 3      \* --threads (opt.NumCPUs)
MaxLines == 5        \* hit lines "kmcp profile" accepts, over all its input files
MaxProfFiles == 2    \* input files of "kmcp profile"
MaxFrags == 2        \* fragments of a reference (the frags column)

\* --------------------------------------------------------------- constants
ChCap == 1024        \* capacity of the printer channel ch
numFields == 11      \* profile: fields a line is split into

\* --------------------------------------------------------------- variables
VARIABLES
    \* kmcp search
    nQueries,      \* number of records in the query files
    keepUnmatched, \* flag --keep-unmatched
    threads,       \* opt.NumCPUs: number of engine workers
    sendId,        \* main: var id uint64, the next query index
    mainPc,        \* main: "send", "wait", "recvDone", "recvPrint", "exit"
    InCh,          \* sg.InCh: queries submitted and not yet taken
    inClosed,      \* close(sg.InCh) happened
    inflight,      \* queries taken by an engine worker, result not yet sent
    OutCh,         \* sg.OutCh: results not yet received by the serializer
    outClosed,     \* the engine closed sg.OutCh
    m,             \* serializer: map[uint64]*QueryResult
    serId,         \* serializer: var id uint64, the cursor
    serPc,         \* serializer: "range", "sendDone", "exit"
    ch,            \* channel to the printer
    chClosed,      \* close(ch) happened
    printPc,       \* printer: "range", "sendDone", "exit"
    printed,       \* lines written to outfh, in order
    forwarded,     \* history: query indices sent on ch, in order
    reader,        \* main: the query files (records and the number of the
                   \* Read call that fails, 0: none), flag
                   \* --query-whole-file, the file being read and the
                   \* records read from it
    \* kmcp profile
    nProfFiles,    \* len(files)
    minReads,      \* flag --min-reads
    minUReads,     \* flag --min-uniq-reads
    minFragsProp,  \* flag --min-frags-prop, a rational <<num, den>>
    pFile,         \* index of the file being scanned, from 1
    linesRead,     \* hit lines accepted so far, over all files
    firtLine,      \* the next line is the first line of its file
    prevQuery,     \* query of the last accepted line of this file
    matches,       \* target -> match results of the current query
    profile,       \* target -> *Target
    profPc,        \* "scan", "filter", "done", "panic", "exit"
    targets,       \* the rows written to outfh, in order
    grouping,      \* history: per target the reads credited to it alone with a
                   \* query coverage of high confidence; the queries of this
                   \* file whose hits have been
                   \* credited, and whether a query came back after that
                   \* (ungrouped); whether an acceptable hit line was
                   \* skipped as the first line of a file (dropped)
    \* kmcp index
    flags,         \* the options of the run and the machine's CPU count
    files,         \* the .unik files given, in the order of the file list
    idxPc,         \* main: "start", "first", "check", "buckets", "walk", "wait", "done"
    openFiles,     \* number of .unik files open for reading
    nextFile,      \* checking: index in files of the next file to hand out
    getInfoPc,     \* checking: file -> "start", "open", "send", "done"
    chInfos,       \* checking: channel of file infos to the collector
    fileInfos0,    \* the file infos, as loaded or in the order they arrived
    warnings,      \* checking: the lines written by log.Warningf, in order
    fileInfoGroups, \* the buckets in the order of the walk
    sBlock,        \* the block size in force
    walkI,         \* the walk: loop variable i
    batch,         \* the walk: buckets of the block being assembled
    flag,          \* the walk: a bucket above kmerThresholdS was met
    flag8,         \* the walk: a bucket above kmerThreshold8 was met
    lastInfos,     \* the walk: bucket left for the next round (<<>>: nil)
    blockNo,       \* the walk: var b int, blocks emitted so far
    blocks         \* block number -> the state of its block worker

searchVars == <<reader, nQueries, keepUnmatched, threads, sendId, mainPc, InCh, inClosed,
                inflight, OutCh, outClosed, m, serId, serPc, ch, chClosed,
                printPc, printed, forwarded>>

profileVars == <<nProfFiles, minReads, minUReads, minFragsProp, pFile, linesRead,
                 firtLine, prevQuery, matches, profile, profPc, targets, grouping>>

indexVars == <<flags, files, idxPc, openFiles, nextFile, getInfoPc, chInfos,
               fileInfos0, warnings, fileInfoGroups, sBlock, walkI, batch, flag, flag8,
               lastInfos, blockNo, blocks>>

vars == <<searchVars, profileVars, indexVars>>

otherThanSearch == <<profileVars, indexVars>>

otherThanProfile == <<searchVars, indexVars>>

otherThanIndex == <<searchVars, profileVars>>

\* ------------------------------------------- a command that does not run
SearchIdle ==
    /\ nQueries = 0 /\ keepUnmatched = FALSE /\ threads = 1
    /\ sendId = 0 /\ mainPc = "exit"
    /\ InCh = <<>> /\ inClosed = TRUE /\ inflight = {}
    /\ OutCh = <<>> /\ outClosed = TRUE
    /\ m = <<>> /\ serId = 0 /\ serPc = "exit"
    /\ ch = <<>> /\ chClosed = TRUE /\ printPc = "exit"
    /\ printed = <<>> /\ forwarded = <<>>
    /\ reader = [files |-> <<>>, wholeFile |-> FALSE, file |-> 1, rec |-> 0]

ProfileIdle ==
    /\ nProfFiles = 0 /\ minReads = 1 /\ minUReads = 1 /\ minFragsProp = <<1, 1>>
    /\ pFile = 0 /\ linesRead = 0 /\ firtLine = FALSE /\ prevQuery = ""
    /\ matches = <<>> /\ profile = <<>> /\ profPc = "done" /\ targets = <<>>
    /\ grouping = [closed |-> {}, ungrouped |-> FALSE, hic |-> <<>>,
                   dropped |-> FALSE]

IndexIdle ==
    /\ flags = <<>> /\ files = <<>> /\ idxPc = "done" /\ openFiles = 0
    /\ nextFile = 0 /\ getInfoPc = <<>> /\ chInfos = <<>> /\ fileInfos0 = <<>>
    /\ warnings = <<>>
    /\ fileInfoGroups = <<>> /\ sBlock = 0 /\ walkI = 0 /\ batch = <<>>
    /\ flag = FALSE /\ flag8 = FALSE /\ lastInfos = <<>> /\ blockNo = 0
    /\ blocks = <<>>

\* ------------------------------------------------------------------ helpers
Range(s) == {s[i] : i \in DOMAIN s}

Min(S) == CHOOSE x \in S : \A y \in S : x <= y

Max(S) == CHOOSE x \in S : \A y \in S : x >= y

RECURSIVE SeqOfSet(_)
\* the elements of a set of integers in ascending order
SeqOfSet(S) == IF S = {} THEN <<>> ELSE <<Min(S)>> \o SeqOfSet(S \ {Min(S)})

RECURSIVE Reverse(_)
Reverse(s) == IF s = <<>> THEN <<>> ELSE Reverse(Tail(s)) \o <<Head(s)>>

\* ===================================================================
\* kmcp search
\* ===================================================================

\* A query result: QueryIdx, the id, length and number of k-mers of the
\* query (record idx of the input has id <<idx>>, length 100 + idx and
\* 10 + idx k-mers), and the number of matches (0: Matches == nil).
QueryResult(idx, n) ==
    [QueryIdx |-> idx, QueryID |-> <<idx>>, QueryLen |-> 100 + idx,
     NumKmers |-> 10 + idx, FPR |-> 0, K |-> 21, Matches |-> n]

InitSearch ==
    /\ ProfileIdle /\ IndexIdle
    /\ nQueries \in 0..MaxQueries
    /\ keepUnmatched \in BOOLEAN
    /\ threads \in 1..MaxThreads
    /\ sendId = 0 /\ mainPc = "send"
    /\ InCh = <<>> /\ inClosed = FALSE /\ inflight = {}
    /\ OutCh = <<>> /\ outClosed = FALSE
    /\ m = <<>> /\ serId = 0 /\ serPc = "range"
    /\ ch = <<>> /\ chClosed = FALSE /\ printPc = "range"
    /\ printed = <<>> /\ forwarded = <<>>
    /\ reader = [files |-> <<>>, wholeFile |-> FALSE, file |-> 1, rec |-> 0]

\* main: read one record and submit it as query number id.
MainSubmit ==
    /\ mainPc = "send" /\ sendId < nQueries
    /\ InCh' = Append(InCh, sendId)
    /\ sendId' = sendId + 1
    /\ UNCHANGED otherThanSearch
    /\ UNCHANGED <<reader, nQueries, keepUnmatched, threads, mainPc, inClosed, inflight,
                   OutCh, outClosed, m, serId, serPc, ch, chClosed, printPc,
                   printed, forwarded>>

\* main: all files read; close(sg.InCh).
MainClose ==
    /\ mainPc = "send" /\ sendId = nQueries
    /\ inClosed' = TRUE
    /\ mainPc' = "wait"
    /\ UNCHANGED otherThanSearch
    /\ UNCHANGED <<reader, nQueries, keepUnmatched, threads, sendId, InCh, inflight,
                   OutCh, outClosed, m, serId, serPc, ch, chClosed, printPc,
                   printed, forwarded>>

\* main: sg.Wait() returns once the engine has finished.
MainWait ==
    /\ mainPc = "wait" /\ outClosed
    /\ mainPc' = "recvDone"
    /\ UNCHANGED otherThanSearch
    /\ UNCHANGED <<reader, nQueries, keepUnmatched, threads, sendId, InCh, inClosed,
                   inflight, OutCh, outClosed, m, serId, serPc, ch, chClosed,
                   printPc, printed, forwarded>>

\* main: <-done, the rendezvous with the serializer's done <- 1.
MainRecvDone ==
    /\ mainPc = "recvDone" /\ serPc = "sendDone"
    /\ mainPc' = "recvPrint" /\ serPc' = "exit"
    /\ UNCHANGED otherThanSearch
    /\ UNCHANGED <<reader, nQueries, keepUnmatched, threads, sendId, InCh, inClosed,
                   inflight, OutCh, outClosed, m, serId, ch, chClosed, printPc,
                   printed, forwarded>>

\* main: <-donePrint, the rendezvous with the printer's donePrint <- 1.
MainRecvPrint ==
    /\ mainPc = "recvPrint" /\ printPc = "sendDone"
    /\ mainPc' = "exit" /\ printPc' = "exit"
    /\ UNCHANGED otherThanSearch
    /\ UNCHANGED <<reader, nQueries, keepUnmatched, threads, sendId, InCh, inClosed,
                   inflight, OutCh, outClosed, m, serId, serPc, ch, chClosed,
                   printed, forwarded>>

\* engine: a free worker takes the next query from sg.InCh.
EngineTake ==
    /\ InCh # <<>> /\ Cardinality(inflight) < threads
    /\ inflight' = inflight \cup {Head(InCh)}
    /\ InCh' = Tail(InCh)
    /\ UNCHANGED otherThanSearch
    /\ UNCHANGED <<reader, nQueries, keepUnmatched, threads, sendId, mainPc, inClosed,
                   OutCh, outClosed, m, serId, serPc, ch, chClosed, printPc,
                   printed, forwarded>>

\* engine: a worker finishes its query and pushes the result on sg.OutCh.
EngineEmit ==
    /\ \E q \in inflight, n \in 0..MaxHits :
          /\ OutCh' = Append(OutCh, QueryResult(q, n))
          /\ inflight' = inflight \ {q}
    /\ UNCHANGED otherThanSearch
    /\ UNCHANGED <<reader, nQueries, keepUnmatched, threads, sendId, mainPc, InCh,
                   inClosed, outClosed, m, serId, serPc, ch, chClosed, printPc,
                   printed, forwarded>>

\* engine: input closed and drained, all workers idle: close(sg.OutCh).
EngineClose ==
    /\ inClosed /\ InCh = <<>> /\ inflight = {} /\ ~outClosed
    /\ outClosed' = TRUE
    /\ UNCHANGED otherThanSearch
    /\ UNCHANGED <<reader, nQueries, keepUnmatched, threads, sendId, mainPc, InCh,
                   inClosed, inflight, OutCh, m, serId, serPc, ch, chClosed,
                   printPc, printed, forwarded>>

\* m[_id] = result
MapPut(mp, k, v) == [x \in (DOMAIN mp) \cup {k} |-> IF x = k THEN v ELSE mp[x]]

\* delete(m, id)
MapDelete(mp, k) == [x \in (DOMAIN mp) \ {k} |-> mp[x]]

\* a mutant of FlushOrder: the keys in descending order
FlushOrderUnsorted(keys) == Reverse(SeqOfSet(keys))

\* the keys left in m, after sortutil.Uint64s(ids)
FlushOrder(keys) == SeqOfSet(keys)

\* a serializer that keeps no result that comes before its turn
ReleaseForgetful(mp, cursor, result) ==
    IF result.QueryIdx = cursor
    THEN [send |-> <<result>>, m |-> mp, id |-> cursor + 1]
    ELSE [send |-> <<>>, m |-> mp, id |-> cursor]

\* The serializer's handling of one arrival: what is sent on ch, the new map
\* and the new cursor.
Release(mp, cursor, result) ==
    IF result.QueryIdx = cursor
    THEN [send |-> <<result>>, m |-> mp, id |-> cursor + 1]
    ELSE LET m1 == MapPut(mp, result.QueryIdx, result)
         IN  IF cursor \in DOMAIN m1
             THEN [send |-> <<m1[cursor]>>, m |-> MapDelete(m1, cursor),
                   id |-> cursor + 1]
             ELSE [send |-> <<>>, m |-> m1, id |-> cursor]

\* serializer: one iteration of "for result := range sg.OutCh".
SerRecv ==
    /\ serPc = "range" /\ OutCh # <<>>
    /\ LET r == Release(m, serId, Head(OutCh))
       IN  /\ Len(ch) + Len(r.send) <= ChCap
           /\ ch' = ch \o r.send
           /\ forwarded' = forwarded \o [i \in DOMAIN r.send |-> r.send[i].QueryIdx]
           /\ m' = r.m
           /\ serId' = r.id
    /\ OutCh' = Tail(OutCh)
    /\ UNCHANGED otherThanSearch
    /\ UNCHANGED <<reader, nQueries, keepUnmatched, threads, sendId, mainPc, InCh,
                   inClosed, inflight, outClosed, serPc, chClosed, printPc,
                   printed>>

\* serializer: sg.OutCh is closed and drained: flush what is left in m in
\* ascending key order, close(ch), then offer done <- 1.
SerFlush ==
    /\ serPc = "range" /\ OutCh = <<>> /\ outClosed
    /\ LET ids == FlushOrder(DOMAIN m)
       IN  /\ Len(ch) + Len(ids) <= ChCap
           /\ ch' = ch \o [i \in DOMAIN ids |-> m[ids[i]]]
           /\ forwarded' = forwarded \o ids
    /\ chClosed' = TRUE
    /\ serPc' = "sendDone"
    /\ UNCHANGED otherThanSearch
    /\ UNCHANGED <<reader, nQueries, keepUnmatched, threads, sendId, mainPc, InCh,
                   inClosed, inflight, OutCh, outClosed, m, serId, printPc,
                   printed>>

\* The line of an unmatched query: target "", fragIdx -1, zero numbers.
UnmatchedLine(result) ==
    [query |-> result.QueryID, qLen |-> result.QueryLen,
     qKmers |-> result.NumKmers, queryIdx |-> result.QueryIdx,
     FPR |-> result.FPR, kSize |-> result.K,
     hits |-> 0, target |-> <<>>, fragIdx |-> -1, frags |-> 0, tLen |-> 0,
     mKmers |-> 0, qCov |-> 0, tCov |-> 0, jacc |-> 0]

\* match.QCov of the j-th match of a result, in 1/100: the first match has
\* all the k-mers of the query, the others six of ten
MatchQCov(j) == IF j = 1 THEN 100 ELSE 60

\* match.NumKmers of the j-th match
MatchedKmers(result, j) == (result.NumKmers * MatchQCov(j)) \div 100

\* a printer whose j-th line of a query carries j as hits
MatchedLinesCounting(result) ==
    [j \in 1..result.Matches |->
        [query |-> result.QueryID, qLen |-> result.QueryLen,
         qKmers |-> result.NumKmers, queryIdx |-> result.QueryIdx,
         FPR |-> result.FPR, kSize |-> result.K,
         hits |-> j, target |-> <<j>>, fragIdx |-> 0, frags |-> 1,
         tLen |-> 1000, mKmers |-> MatchedKmers(result, j),
         qCov |-> MatchQCov(j), tCov |-> 1, jacc |-> 1]]

\* The lines of a matched query, one per match, each carrying hits; the
\* j-th match is on target <<j>>, a reference of one fragment. qCov is in
\* 1/100 and FPR in 1/1000.
MatchedLines(result) ==
    [j \in 1..result.Matches |->
        [query |-> result.QueryID, qLen |-> result.QueryLen,
         qKmers |-> result.NumKmers, queryIdx |-> result.QueryIdx,
         FPR |-> result.FPR, kSize |-> result.K,
         hits |-> result.Matches, target |-> <<j>>, fragIdx |-> 0, frags |-> 1,
         tLen |-> 1000, mKmers |-> MatchedKmers(result, j),
         qCov |-> MatchQCov(j), tCov |-> 1, jacc |-> 1]]

\* a printer that writes the line of an unmatched query whatever the flag
LinesUnmatchedKept(result, keep) ==
    IF result.Matches = 0 THEN <<UnmatchedLine(result)>> ELSE MatchedLines(result)

\* The lines the printer writes for one result.
Lines(result, keep) ==
    IF result.Matches = 0
    THEN IF keep THEN <<UnmatchedLine(result)>> ELSE <<>>
    ELSE MatchedLines(result)

\* printer: one iteration of "for result := range ch".
PrintResult ==
    /\ printPc = "range" /\ ch # <<>>
    /\ printed' = printed \o Lines(Head(ch), keepUnmatched)
    /\ ch' = Tail(ch)
    /\ UNCHANGED otherThanSearch
    /\ UNCHANGED <<reader, nQueries, keepUnmatched, threads, sendId, mainPc, InCh,
                   inClosed, inflight, OutCh, outClosed, m, serId, serPc,
                   chClosed, printPc, forwarded>>

\* printer: ch is closed and drained: offer donePrint <- 1.
PrintDone ==
    /\ printPc = "range" /\ ch = <<>> /\ chClosed
    /\ printPc' = "sendDone"
    /\ UNCHANGED otherThanSearch
    /\ UNCHANGED <<reader, nQueries, keepUnmatched, threads, sendId, mainPc, InCh,
                   inClosed, inflight, OutCh, outClosed, m, serId, serPc, ch,
                   chClosed, printed, forwarded>>

NextSearch ==
    \/ MainSubmit \/ MainClose \/ MainWait \/ MainRecvDone \/ MainRecvPrint
    \/ EngineTake \/ EngineEmit \/ EngineClose
    \/ SerRecv \/ SerFlush
    \/ PrintResult \/ PrintDone

SpecSearch == InitSearch /\ [][NextSearch]_vars

\* ------------------------------------------- search: shutdown under fairness
\* engine: a worker finishes its query with one match.
EngineAnswer ==
    /\ \E q \in inflight :
          /\ OutCh' = Append(OutCh, QueryResult(q, 1))
          /\ inflight' = inflight \ {q}
    /\ UNCHANGED otherThanSearch
    /\ UNCHANGED <<reader, nQueries, keepUnmatched, threads, sendId, mainPc, InCh,
                   inClosed, outClosed, m, serId, serPc, ch, chClosed, printPc,
                   printed, forwarded>>

\* engine: a worker finishes its query without a result, so that the index
\* of the query never arrives at the serializer.
EngineSkip ==
    /\ \E q \in inflight : inflight' = inflight \ {q}
    /\ UNCHANGED otherThanSearch
    /\ UNCHANGED <<reader, nQueries, keepUnmatched, threads, sendId, mainPc, InCh,
                   inClosed, OutCh, outClosed, m, serId, serPc, ch, chClosed,
                   printPc, printed, forwarded>>

NextSearchFair ==
    \/ MainSubmit \/ MainClose \/ MainWait \/ MainRecvDone \/ MainRecvPrint
    \/ EngineTake \/ EngineAnswer \/ EngineSkip \/ EngineClose
    \/ SerRecv \/ SerFlush
    \/ PrintResult \/ PrintDone

\* The goroutines of the command are scheduled fairly: while a step of one
\* of them is possible, a step is taken.
SpecSearchFair ==
    InitSearch /\ [][NextSearchFair]_vars /\ WF_vars(NextSearchFair)

\* ------------------------------------------- search: reading the query files
MaxQueryFiles == 2   \* query files of "kmcp search"

RECURSIVE Records(_)
\* the records of the files fs
Records(fs) == IF fs = <<>> THEN 0 ELSE Head(fs).records + Records(Tail(fs))

\* The query files: at most MaxQueryFiles files of at most MaxQueries records
\* in all, of which at most one fails. errAt is the number of the call of
\* fastxReader.Read() on the file that returns an error other than io.EOF
\* (0: none; records + 1: the error comes in the place of io.EOF).
QueryFiles ==
    LET File == {f \in [records : 0..MaxQueries, errAt : 0..(MaxQueries + 1)] :
                    f.errAt <= f.records + 1}
    IN {fs \in UNION {[1..n -> File] : n \in 1..MaxQueryFiles} :
           /\ Records(fs) <= MaxQueries
           /\ Cardinality({x \in DOMAIN fs : fs[x].errAt # 0}) <= 1}

InitSearchRead ==
    /\ ProfileIdle /\ IndexIdle
    /\ nQueries = 0 /\ keepUnmatched = FALSE
    /\ threads \in {1, 2}
    /\ sendId = 0 /\ mainPc = "send"
    /\ InCh = <<>> /\ inClosed = FALSE /\ inflight = {}
    /\ OutCh = <<>> /\ outClosed = FALSE
    /\ m = <<>> /\ serId = 0 /\ serPc = "range"
    /\ ch = <<>> /\ chClosed = FALSE /\ printPc = "range"
    /\ printed = <<>> /\ forwarded = <<>>
    /\ \E fs \in QueryFiles, w \in BOOLEAN :
          reader = [files |-> fs, wholeFile |-> w, file |-> 1, rec |-> 0]

\* a reader that gives up all the files left after an error
MainReadAborting ==
    /\ mainPc = "send" /\ reader.file <= Len(reader.files)
    /\ LET f == reader.files[reader.file]
           n == reader.rec + 1
           err == f.errAt = n
           eof == ~err /\ n > f.records
           submit == IF reader.wholeFile THEN err \/ eof ELSE ~(err \/ eof)
       IN /\ InCh' = IF submit THEN Append(InCh, sendId) ELSE InCh
          /\ sendId' = IF submit THEN sendId + 1 ELSE sendId
          /\ reader' = IF err THEN [reader EXCEPT !.file = Len(reader.files) + 1,
                                                  !.rec = 0]
                        ELSE IF eof THEN [reader EXCEPT !.file = @ + 1, !.rec = 0]
                        ELSE [reader EXCEPT !.rec = n]
    /\ UNCHANGED otherThanSearch
    /\ UNCHANGED <<nQueries, keepUnmatched, threads, mainPc, inClosed, inflight,
                   OutCh, outClosed, m, serId, serPc, ch, chClosed, printPc,
                   printed, forwarded>>

\* main: one call of fastxReader.Read() on the file being read. A record is
\* submitted as query number id, or with --query-whole-file joined to the
\* sequence of the file; io.EOF and any other error end the loop over the
\* records of the file (the wrapped error is dropped), with
\* --query-whole-file the sequence of the file is then submitted as one
\* query, and main goes on to the next file.
MainRead ==
    /\ mainPc = "send" /\ reader.file <= Len(reader.files)
    /\ LET f == reader.files[reader.file]
           n == reader.rec + 1
           err == f.errAt = n
           eof == ~err /\ n > f.records
           submit == IF reader.wholeFile THEN err \/ eof ELSE ~(err \/ eof)
       IN /\ InCh' = IF submit THEN Append(InCh, sendId) ELSE InCh
          /\ sendId' = IF submit THEN sendId + 1 ELSE sendId
          /\ reader' = IF err \/ eof THEN [reader EXCEPT !.file = @ + 1, !.rec = 0]
                        ELSE [reader EXCEPT !.rec = n]
    /\ UNCHANGED otherThanSearch
    /\ UNCHANGED <<nQueries, keepUnmatched, threads, mainPc, inClosed, inflight,
                   OutCh, outClosed, m, serId, serPc, ch, chClosed, printPc,
                   printed, forwarded>>

\* main: the loop over the files has ended; close(sg.InCh).
MainReadClose ==
    /\ mainPc = "send" /\ reader.file > Len(reader.files)
    /\ inClosed' = TRUE
    /\ mainPc' = "wait"
    /\ UNCHANGED otherThanSearch
    /\ UNCHANGED <<reader, nQueries, keepUnmatched, threads, sendId, InCh, inflight,
                   OutCh, outClosed, m, serId, serPc, ch, chClosed, printPc,
                   printed, forwarded>>

NextSearchRead ==
    \/ MainRead \/ MainReadClose \/ MainWait \/ MainRecvDone \/ MainRecvPrint
    \/ EngineTake \/ EngineAnswer \/ EngineClose
    \/ SerRecv \/ SerFlush
    \/ PrintResult \/ PrintDone

\* The goroutines of the command are scheduled fairly.
SpecSearchRead ==
    InitSearchRead /\ [][NextSearchRead]_vars /\ WF_vars(NextSearchRead)

\* C1: the serializer forwards results in strictly increasing query index,
\* and so every printed line of query q precedes every line of query q+1.
C1_OrderedOutput ==
    /\ \A i, j \in DOMAIN forwarded : i < j => forwarded[i] < forwarded[j]
    /\ \A i, j \in DOMAIN printed : i < j => printed[i].queryIdx <= printed[j].queryIdx

\* C1 witness: results arrived out of order (one is still buffered behind the
\* cursor's successors), several were forwarded, and all lines are printed.
C1_Witness ==
    /\ mainPc = "exit"
    /\ DOMAIN m # {}
    /\ Len(forwarded) = MaxQueries
    /\ Len(printed) >= MaxQueries

\* the printer takes a result from ch
Printing == printPc = "range" /\ ch # <<>> /\ ch' = Tail(ch)

\* C14: when the printer takes a result without matches it writes exactly
\* one line if keepUnmatched is set and nothing otherwise; the line has the
\* id, length, number of k-mers and index of the query, target empty,
\* fragIdx -1 and hits, frags, tLen, mKmers, qCov, tCov and jacc 0.
C14_UnmatchedLine ==
    [][(Printing /\ Head(ch).Matches = 0) =>
         LET q == Head(ch).QueryIdx
         IN IF keepUnmatched
            THEN printed' = Append(printed,
                     [query |-> <<q>>, qLen |-> 100 + q, qKmers |-> 10 + q,
                      FPR |-> 0, kSize |-> 21,
                      queryIdx |-> q, hits |-> 0, target |-> <<>>,
                      fragIdx |-> -1, frags |-> 0, tLen |-> 0, mKmers |-> 0,
                      qCov |-> 0, tCov |-> 0, jacc |-> 0])
            ELSE printed' = printed]_vars

\* C14 witness: with keepUnmatched set, the line of an unmatched query is
\* written between the lines of two matched queries.
C14_Witness ==
    /\ keepUnmatched
    /\ \E i \in DOMAIN printed :
          /\ printed[i].hits = 0 /\ printed[i].target = <<>>
          /\ 1 < i /\ i < Len(printed)
          /\ printed[i - 1].hits > 0 /\ printed[i + 1].hits > 0

\* C15: the lines of one query are contiguous in the output, and a matched
\* query with n hits has exactly n lines, on n different matches, each
\* carrying hits = n.
C15_ContiguousLines ==
    /\ \A i, j, k \in DOMAIN printed :
          (i < j /\ j < k /\ printed[i].queryIdx = printed[k].queryIdx)
              => printed[j].queryIdx = printed[i].queryIdx
    /\ \A i \in DOMAIN printed :
          LET own == {j \in DOMAIN printed : printed[j].queryIdx = printed[i].queryIdx}
          IN printed[i].hits > 0 =>
                /\ Cardinality(own) = printed[i].hits
                /\ \A j \in own : printed[j].hits = printed[i].hits
                /\ Cardinality({printed[j].target : j \in own}) = printed[i].hits

\* C15 witness: results arrived out of order, and the two lines of a query
\* with two hits are written between the lines of two other matched queries.
C15_Witness ==
    /\ DOMAIN m # {}
    /\ \E i \in DOMAIN printed :
          /\ 1 < i /\ i + 1 < Len(printed)
          /\ printed[i].hits = 2 /\ printed[i + 1].queryIdx = printed[i].queryIdx
          /\ printed[i - 1].hits > 0 /\ printed[i - 1].queryIdx # printed[i].queryIdx
          /\ printed[i + 2].hits > 0 /\ printed[i + 2].queryIdx # printed[i].queryIdx

\* ===================================================================
\* kmcp profile
\* ===================================================================

\* Numbers of reads are kept as multiples of 1/Unit, so that 1/k is exact
\* for every group size k the bounds allow.
Gcd(a, b) == Max({d \in 1..a : a % d = 0 /\ b % d = 0})

RECURSIVE LcmUpTo(_)
LcmUpTo(n) == IF n <= 1 THEN 1 ELSE LET l == LcmUpTo(n - 1) IN (l * n) \div Gcd(l, n)

Unit == LcmUpTo(MaxLines)

\* rationals <<num, den>> with den > 0
RatLT(a, b) == a[1] * b[2] < b[1] * a[2]

RatGT(a, b) == RatLT(b, a)

RatEQ(a, b) == a[1] * b[2] = b[1] * a[2]

RECURSIVE SumSeq(_)
SumSeq(s) == IF s = <<>> THEN 0 ELSE Head(s) + SumSeq(Tail(s))

\* --max-fpr, in 1/1000 (default 0.001)
maxFPR == 1

\* --max-qcov (read into minQcov), in 1/100 (default 0.7)
minQcov == 70

QueryNames == {"q1", "q2"}

TargetNames == {"A", "B"}

\* items[i] of a split line (Go counts the fields from 0)
Item(line, i) == line[i + 1]

\* A line of the input, as its numFields tab-separated fields:
\* query, qLen, qKmers, FPR, hits, target, fragIdx, frags, then the fields
\* read as mKmers and qCov, and the rest of the line.
InputLine(q, fpr, t, fragIdx, frags, qcov) ==
    <<q, 100, 50, fpr, 1, t, fragIdx, frags, 40, qcov, "rest">>

\* a field that strconv.Atoi and strconv.ParseFloat do not parse
NotANumber == -1000000

\* the lines a file may hold: hits on the first and on the last fragment of
\* every target, a hit whose frags column disagrees with the other lines of
\* its target, a line over the FPR threshold and a line under the query
\* coverage threshold
LineSet ==
    { InputLine(q, 0, t, fi, MaxFrags, 90) :
        q \in QueryNames, t \in TargetNames, fi \in {0, MaxFrags - 1} }
    \cup { InputLine("q2", 0, "B", 1, 1, 90),
           InputLine("q1", 5, "A", 0, MaxFrags, 90),
           InputLine("q2", 0, "B", 0, MaxFrags, 50) }

\* hits with a query coverage between --max-qcov and --min-hic-ureads-qcov
ModestLines == { InputLine(q, 0, "A", 0, MaxFrags, 75) : q \in QueryNames }

\* lines of a damaged file: a hit whose frags column is 0, a hit whose
\* fragIdx column is not a number, and a line over the FPR threshold whose
\* fragIdx column is not a number
DamagedLines ==
    { InputLine("q1", 0, "A", 0, 0, 90),
      InputLine("q2", 0, "A", NotANumber, MaxFrags, 90),
      InputLine("q2", 5, "B", NotANumber, MaxFrags, 90) }

\* a parser that gives up a line with a field it cannot parse
parseMatchResultSkipping(line, maxPFR, minQ) ==
    IF \E i \in {1, 2, 3, 4, 6, 7, 8, 9} : Item(line, i) = NotANumber
    THEN [ok |-> FALSE, err |-> FALSE]
    ELSE IF Item(line, 3) > maxPFR \/ Item(line, 9) < minQ
    THEN [ok |-> FALSE, err |-> FALSE]
    ELSE [ok |-> TRUE, err |-> FALSE,
          Query |-> Item(line, 0), QLen |-> Item(line, 1), QKmers |-> Item(line, 2),
          FPR |-> Item(line, 3), Hits |-> Item(line, 4), Target |-> Item(line, 5),
          FragIdx |-> Item(line, 6), IdxNum |-> Item(line, 7),
          MKmers |-> Item(line, 8), QCov |-> Item(line, 9)]

\* a parser without the filters on FPR and query coverage
parseMatchResultUnfiltered(line, maxPFR, minQ) ==
    IF \E i \in {1, 2, 3, 4, 6, 7, 8, 9} : Item(line, i) = NotANumber
    THEN [ok |-> FALSE, err |-> TRUE]
    ELSE [ok |-> TRUE, err |-> FALSE,
          Query |-> Item(line, 0), QLen |-> Item(line, 1), QKmers |-> Item(line, 2),
          FPR |-> Item(line, 3), Hits |-> Item(line, 4), Target |-> Item(line, 5),
          FragIdx |-> Item(line, 6), IdxNum |-> Item(line, 7),
          MKmers |-> Item(line, 8), QCov |-> Item(line, 9)]

\* parseMatchResult: the match result and whether the line is accepted; err
\* is TRUE when checkError is called with an error of strconv, which ends
\* the command.
parseMatchResult(line, maxPFR, minQ) ==
    IF Item(line, 3) = NotANumber THEN [ok |-> FALSE, err |-> TRUE]
    ELSE IF Item(line, 3) > maxPFR THEN [ok |-> FALSE, err |-> FALSE]
    ELSE IF Item(line, 9) = NotANumber THEN [ok |-> FALSE, err |-> TRUE]
    ELSE IF Item(line, 9) < minQ THEN [ok |-> FALSE, err |-> FALSE]
    ELSE IF \E i \in {1, 2, 4, 6, 7, 8} : Item(line, i) = NotANumber
    THEN [ok |-> FALSE, err |-> TRUE]
    ELSE [ok |-> TRUE, err |-> FALSE,
          Query |-> Item(line, 0), QLen |-> Item(line, 1), QKmers |-> Item(line, 2),
          FPR |-> Item(line, 3), Hits |-> Item(line, 4), Target |-> Item(line, 5),
          FragIdx |-> Item(line, 6), IdxNum |-> Item(line, 7),
          MKmers |-> Item(line, 8), QCov |-> Item(line, 9)]

\* The text strconv.Itoa writes for n, and the text strconv.FormatFloat
\* writes for the value v / scale.
Itoa(n) == [kind |-> "int", v |-> n]

FormatFloat(v, scale) == [kind |-> "float", v |-> v, scale |-> scale]

\* strconv.Atoi of a text: a text with a fraction is not an integer.
Atoi(text) == IF text.kind = "int" THEN text.v ELSE NotANumber

\* strconv.ParseFloat of a text, as a number of 1/scale.
ParseFloat(text, scale) ==
    IF text.kind = "int" THEN text.v * scale
    ELSE (text.v * scale) \div text.scale

\* The columns of a line of the search output, in the order the printer
\* writes them.
Columns(l) ==
    <<l.query, Itoa(l.qLen), Itoa(l.qKmers), FormatFloat(l.FPR, 1000), Itoa(l.hits),
      l.target, Itoa(l.fragIdx), Itoa(l.frags), Itoa(l.tLen), Itoa(l.kSize),
      Itoa(l.mKmers), FormatFloat(l.qCov, 100), FormatFloat(l.tCov, 1),
      FormatFloat(l.jacc, 1), Itoa(l.queryIdx)>>

\* stringSplitN(line, "\t", numFields, items): the first numFields - 1
\* columns and the rest of the line.
stringSplitN(cols, n) ==
    IF Len(cols) <= n THEN cols
    ELSE SubSeq(cols, 1, n - 1) \o <<SubSeq(cols, n, Len(cols))>>

\* The items of a line of columns as parseMatchResult reads them: items 0 and
\* 5 as they are, item 3 by ParseFloat in 1/1000, item 9 by ParseFloat in
\* 1/100, items 1, 2, 4, 6, 7 and 8 by Atoi.
ItemsRead(cols) ==
    LET items == stringSplitN(cols, numFields)
    IN <<items[1], Atoi(items[2]), Atoi(items[3]), ParseFloat(items[4], 1000),
         Atoi(items[5]), items[6], Atoi(items[7]), Atoi(items[8]), Atoi(items[9]),
         ParseFloat(items[10], 100), items[11]>>

\* t0 := Target{Name, Match: make([]float64, IdxNum), ...}
NewTarget(mr) ==
    [Name |-> mr.Target,
     Match |-> [i \in 1..mr.IdxNum |-> 0],
     UniqMatch |-> [i \in 1..mr.IdxNum |-> 0],
     FragLens |-> [i \in 1..mr.IdxNum |-> 0],
     SumUniqMatch |-> 0, FragsProp |-> <<0, 1>>, MeanAbundance |-> <<0, 1>>]

\* floatOne / floatMsSize, in 1/Unit
Share(ms) == Unit \div Len(ms)

\* the increment of UniqMatch for one match result of ms
UniqShare(ms) == IF Len(ms) = 1 THEN 1 ELSE 0

RECURSIVE CreditMs(_, _, _, _)
\* for _, m = range ms { ... }: the match results i.. of ms, all on the target
\* with hash h, credited to the profile p; ok is FALSE when an index is out
\* of range (a run-time panic).
CreditMs(p, h, ms, i) ==
    IF i > Len(ms) THEN [ok |-> TRUE, profile |-> p]
    ELSE LET mr == ms[i] IN
         IF h \notin DOMAIN p /\ mr.IdxNum < 0 THEN [ok |-> FALSE, profile |-> p]
         ELSE LET p1 == IF h \in DOMAIN p THEN p ELSE MapPut(p, h, NewTarget(mr))
                  t == p1[h]
                  f == mr.FragIdx + 1
              IN  IF mr.FragIdx < 0 \/ mr.FragIdx >= Len(t.Match)
                  THEN [ok |-> FALSE, profile |-> p]
                  ELSE CreditMs(
                         MapPut(p1, h,
                            [t EXCEPT !.Name = mr.Target,
                                      !.Match[f] = @ + Share(ms),
                                      !.UniqMatch[f] = @ + UniqShare(ms),
                                      !.FragLens[f] = @ + mr.QLen]),
                         h, ms, i + 1)

RECURSIVE Credit(_, _, _)
\* for h, ms = range matches { ... }: the targets hs of the group ma credited
\* to the profile p (the targets are independent of each other, so the
\* iteration order of the map does not show).
Credit(p, ma, hs) ==
    IF hs = {} THEN [ok |-> TRUE, profile |-> p]
    ELSE LET h == CHOOSE x \in hs : TRUE
             r == CreditMs(p, h, ma[h], 1)
         IN  IF r.ok THEN Credit(r.profile, ma, hs \ {h}) ELSE r

\* a profiler that keeps only the last hit of a query on a target
AddMatchReplacing(ma, mr) == MapPut(ma, mr.Target, <<mr>>)

\* matches[hTarget] = append(matches[hTarget], match)
AddMatch(ma, mr) ==
    MapPut(ma, mr.Target,
           (IF mr.Target \in DOMAIN ma THEN ma[mr.Target] ELSE <<>>) \o <<mr>>)

InitProfile ==
    /\ SearchIdle /\ IndexIdle
    /\ nProfFiles = MaxProfFiles
    /\ minReads = 1
    /\ \E o \in {<<2, <<1, 2>>>>, <<1, <<1, 1>>>>} :
          minUReads = o[1] /\ minFragsProp = o[2]
    /\ pFile = 1 /\ linesRead = 0 /\ firtLine = TRUE /\ prevQuery = ""
    /\ matches = <<>> /\ profile = <<>> /\ profPc = "scan" /\ targets = <<>>
    /\ grouping = [closed |-> {}, ungrouped |-> FALSE, hic |-> <<>>,
                   dropped |-> FALSE]

\* --min-hic-ureads-qcov of the usage, in 1/100 (default 0.8)
minHicUreadsQcov == 80

\* --min-hic-ureads of the usage (default 1)
minHicUreads == 1

\* --min-hic-ureads-prop of the usage, a rational (default 0.1)
minHicUreadsProp == <<1, 10>>

\* History: hic after the hits ma of one query are credited; a target counts
\* the query when the query has one hit on it ("len(ms) == 1") and the
\* query coverage of the hit is at least minHicUreadsQcov.
HicCredit(hic, ma) ==
    LET hit == {h \in DOMAIN ma : Len(ma[h]) = 1 /\ ma[h][1].QCov >= minHicUreadsQcov}
    IN [h \in DOMAIN hic \cup hit |->
           (IF h \in DOMAIN hic THEN hic[h] ELSE 0) + (IF h \in hit THEN 1 ELSE 0)]

\* checkError(err) with an error: the error is reported and the command
\* ends; pc is where the command stood.
checkError(pc) == "exit"

\* One iteration of "for scanner.Scan()" on a line: the first line of a file
\* is skipped, a line with a field that does not parse ends the command, a
\* rejected line is skipped, the first accepted line of another query
\* credits the hits of the previous query, and the line joins matches.
Scan(line) ==
    LET cur == [firtLine |-> firtLine, linesRead |-> linesRead,
                prevQuery |-> prevQuery, matches |-> matches,
                profile |-> profile, profPc |-> profPc, grouping |-> grouping]
    IN IF firtLine THEN [cur EXCEPT !.firtLine = FALSE]
       ELSE LET match == parseMatchResult(line, maxFPR, minQcov) IN
            IF match.err THEN [cur EXCEPT !.profPc = checkError(profPc)]
            ELSE IF ~match.ok THEN cur
            ELSE IF prevQuery # match.Query
            THEN LET r == Credit(profile, matches, DOMAIN matches) IN
                 IF r.ok
                 THEN [cur EXCEPT
                         !.linesRead = linesRead + 1,
                         !.profile = r.profile,
                         !.matches = AddMatch(<<>>, match),
                         !.prevQuery = match.Query,
                         !.grouping =
                             [grouping EXCEPT
                                !.closed = grouping.closed \cup ({prevQuery} \ {""}),
                                !.ungrouped = grouping.ungrouped
                                              \/ match.Query \in grouping.closed,
                                !.hic = HicCredit(grouping.hic, matches)]]
                 ELSE [cur EXCEPT !.linesRead = linesRead + 1, !.profPc = "panic"]
            ELSE [cur EXCEPT !.linesRead = linesRead + 1,
                             !.matches = AddMatch(matches, match)]

\* The scanner delivers a line of a file of search results.
ScanLine ==
    /\ profPc = "scan" /\ linesRead < MaxLines
    /\ \E line \in LineSet :
         LET r == Scan(line)
         IN /\ firtLine' = r.firtLine /\ linesRead' = r.linesRead
            /\ prevQuery' = r.prevQuery /\ matches' = r.matches
            /\ profile' = r.profile /\ profPc' = r.profPc
            /\ grouping' = [grouping EXCEPT !.hic = r.grouping.hic]
    /\ UNCHANGED <<nProfFiles, minReads, minUReads, minFragsProp, pFile, targets>>
    /\ UNCHANGED otherThanProfile

\* The scanner delivers a line of a file that may be damaged; the history
\* of the queries is kept. These runs accept one line less than the others.
ScanInput ==
    /\ profPc = "scan" /\ linesRead < MaxLines - 1
    /\ \E line \in LineSet \cup DamagedLines \cup ModestLines :
         LET r == Scan(line)
         IN /\ firtLine' = r.firtLine /\ linesRead' = r.linesRead
            /\ prevQuery' = r.prevQuery /\ matches' = r.matches
            /\ profile' = r.profile /\ profPc' = r.profPc
            /\ grouping' = r.grouping
    /\ UNCHANGED <<nProfFiles, minReads, minUReads, minFragsProp, pFile, targets>>
    /\ UNCHANGED otherThanProfile

\* The scanner reached the end of a file: the hits of its last query are
\* credited; the next file starts afresh, and after the last file the
\* filtering begins.
EndOfFile ==
    /\ profPc = "scan"
    /\ LET r == Credit(profile, matches, DOMAIN matches) IN
       IF r.ok
       THEN /\ profile' = r.profile
            /\ IF pFile < nProfFiles
               THEN /\ pFile' = pFile + 1
                    /\ matches' = <<>> /\ prevQuery' = "" /\ firtLine' = TRUE
                    /\ grouping' = [grouping EXCEPT
                                       !.closed = {},
                                       !.hic = HicCredit(grouping.hic, matches)]
                    /\ UNCHANGED profPc
               ELSE /\ profPc' = "filter"
                    /\ grouping' = [grouping EXCEPT
                                       !.hic = HicCredit(grouping.hic, matches)]
                    /\ UNCHANGED <<pFile, matches, prevQuery, firtLine>>
       ELSE /\ profPc' = "panic"
            /\ UNCHANGED <<profile, pFile, matches, prevQuery, firtLine, grouping>>
    /\ UNCHANGED <<nProfFiles, minReads, minUReads, minFragsProp, linesRead, targets>>
    /\ UNCHANGED otherThanProfile

\* a mutant of MatchedFrags: a fragment with exactly minReads reads counts
MatchedFragsGE(t, minR) ==
    Cardinality({i \in DOMAIN t.Match : t.Match[i] >= minR * Unit})

\* the number of fragments with c > float64(minReads)
MatchedFrags(t, minR) ==
    Cardinality({i \in DOMAIN t.Match : t.Match[i] > minR * Unit})

\* The fields the filtering loop computes for one target; keep is FALSE for
\* a target deleted from the profile.
Filtered(t, minR, minU, minP) ==
    LET fp == <<MatchedFrags(t, minR), Len(t.Match)>>
        su == SumSeq(t.UniqMatch)
        t1 == [t EXCEPT !.FragsProp = fp, !.MeanAbundance = <<SumSeq(t.Match), Unit>>]
    IN  IF RatLT(fp, minP) THEN [keep |-> FALSE, t |-> t1]
        ELSE IF su < minU THEN [keep |-> FALSE, t |-> [t1 EXCEPT !.SumUniqMatch = su]]
        ELSE [keep |-> TRUE,
              t |-> [t1 EXCEPT !.SumUniqMatch = su,
                               !.MeanAbundance = <<SumSeq(t.Match), Unit * Len(t.Match)>>]]

\* Targets.Less
Less(a, b) ==
    RatGT(a.FragsProp, b.FragsProp) /\ RatGT(a.MeanAbundance, b.MeanAbundance)

RECURSIVE Sink(_, _)
\* for j := i; j > a && data.Less(j, j-1); j-- { data.Swap(j, j-1) }
Sink(s, j) ==
    IF j > 1 /\ Less(s[j], s[j - 1])
    THEN Sink([s EXCEPT ![j] = s[j - 1], ![j - 1] = s[j]], j - 1)
    ELSE s

RECURSIVE InsertionSort(_, _)
InsertionSort(s, i) == IF i > Len(s) THEN s ELSE InsertionSort(Sink(s, i), i + 1)

\* sorts.Quicksort(Targets(targets)): a slice this short is sorted by
\* insertion
Quicksort(s) == InsertionSort(s, 2)

\* the orders in which "for h, t := range profile" may visit the keys hs
Orders(hs) ==
    {o \in [1..Cardinality(hs) -> hs] : \A i, j \in DOMAIN o : i # j => o[i] # o[j]}

RECURSIVE Survivors(_, _, _)
\* targets = append(targets, t) for the targets kept, visited in order o
Survivors(p, o, i) ==
    IF i > Len(o) THEN <<>>
    ELSE LET r == Filtered(p[o[i]], minReads, minUReads, minFragsProp)
         IN  (IF r.keep THEN <<r.t>> ELSE <<>>) \o Survivors(p, o, i + 1)

\* After the last file: the targets are filtered, sorted and written.
Finish ==
    /\ profPc = "filter"
    /\ \E o \in Orders(DOMAIN profile) :
          targets' = Quicksort(Survivors(profile, o, 1))
    /\ profile' =
          LET kept == {h \in DOMAIN profile :
                         Filtered(profile[h], minReads, minUReads, minFragsProp).keep}
          IN  [h \in kept |->
                 Filtered(profile[h], minReads, minUReads, minFragsProp).t]
    /\ profPc' = "done"
    /\ UNCHANGED <<nProfFiles, minReads, minUReads, minFragsProp, pFile, linesRead,
                   firtLine, prevQuery, matches, grouping>>
    /\ UNCHANGED otherThanProfile

NextProfile == ScanLine \/ EndOfFile \/ Finish

SpecProfile == InitProfile /\ [][NextProfile]_vars

\* The profiler on files that may be damaged or not grouped by query, with
\* the default --min-frags-prop 0.5.
InitProfileInput ==
    /\ SearchIdle /\ IndexIdle
    /\ nProfFiles = MaxProfFiles
    /\ minReads = 1 /\ minUReads = 1 /\ minFragsProp = <<1, 2>>
    /\ pFile = 1 /\ linesRead = 0 /\ firtLine = TRUE /\ prevQuery = ""
    /\ matches = <<>> /\ profile = <<>> /\ profPc = "scan" /\ targets = <<>>
    /\ grouping = [closed |-> {}, ungrouped |-> FALSE, hic |-> <<>>,
                   dropped |-> FALSE]

NextProfileInput == ScanInput \/ EndOfFile \/ Finish

SpecProfileInput == InitProfileInput /\ [][NextProfileInput]_vars

\* The header row kmcp search writes unless --no-header-row is given, as its
\* fields: none of the columns read as numbers parses.
HeaderLine ==
    <<"#query", NotANumber, NotANumber, NotANumber, NotANumber, "target",
      NotANumber, NotANumber, NotANumber, NotANumber, "rest">>

\* The line kmcp search --keep-unmatched writes for a query without a hit,
\* as the profiler reads it: FPR 0, target "", fragIdx -1, frags 0, and in
\* the field read as qCov the k-mer size 21 (2100 in 1/100).
UnmatchedRecord == InputLine("q2", 0, "", -1, 0, 2100)

\* The scanner delivers a line of a file written with a header row or
\* without one, with the lines of unmatched queries or without them. History: dropped, whether a line that parseMatchResult would
\* accept was skipped as the first line of its file.
ScanOptionalHeader ==
    /\ profPc = "scan" /\ linesRead < MaxLines - 1
    /\ \E line \in LineSet \cup {HeaderLine, UnmatchedRecord} :
         LET r == Scan(line)
         IN /\ firtLine' = r.firtLine /\ linesRead' = r.linesRead
            /\ prevQuery' = r.prevQuery /\ matches' = r.matches
            /\ profile' = r.profile /\ profPc' = r.profPc
            /\ grouping' =
                  [r.grouping EXCEPT
                     !.dropped = @ \/ (firtLine
                                        /\ parseMatchResult(line, maxFPR, minQcov).ok)]
    /\ UNCHANGED <<nProfFiles, minReads, minUReads, minFragsProp, pFile, targets>>
    /\ UNCHANGED otherThanProfile

NextProfileHeader == ScanOptionalHeader \/ EndOfFile \/ Finish

\* The profiler on files with a header row and without one.
SpecProfileHeader == InitProfileInput /\ [][NextProfileHeader]_vars

\* ------------------------------------------------------- profile: claims

\* Match[f] of target t in the profile p, 0 for a target not yet there
MatchOf(p, t, f) ==
    IF t \in DOMAIN p /\ f \in DOMAIN p[t].Match THEN p[t].Match[f] ELSE 0

\* UniqMatch[f] of target t in the profile p
UniqOf(p, t, f) ==
    IF t \in DOMAIN p /\ f \in DOMAIN p[t].UniqMatch THEN p[t].UniqMatch[f] ELSE 0

RECURSIVE GroupSize(_, _)
\* |H_Q|: the number of accepted hits of the current query, on the targets hs
GroupSize(ma, hs) ==
    IF hs = {} THEN 0
    ELSE LET h == CHOOSE x \in hs : TRUE IN Len(ma[h]) + GroupSize(ma, hs \ {h})

\* the number of hits of the current query on fragment f of target t
HitsOn(ma, t, f) ==
    IF t \in DOMAIN ma
    THEN Cardinality({i \in DOMAIN ma[t] : ma[t][i].FragIdx + 1 = f})
    ELSE 0

\* a step that credits the hits of the query held in matches
CreditStep == profPc = "scan" /\ profPc' # "panic" /\ profile' # profile

\* C3: every hit of a query with k accepted hits adds exactly 1/k to
\* match[t][f] of its target and fragment.
C3_EachHitAddsOneOverK ==
    [][CreditStep =>
         \A t \in TargetNames, f \in 1..MaxFrags :
            (MatchOf(profile', t, f) - MatchOf(profile, t, f))
               * GroupSize(matches, DOMAIN matches)
            = HitsOn(matches, t, f) * Unit]_vars

\* C4: unique_match[t][f] is incremented by 1 for a hit if and only if the
\* query has exactly one accepted hit in total.
C4_UniqueIffSingleHit ==
    [][CreditStep =>
         \A t \in TargetNames, f \in 1..MaxFrags :
            UniqOf(profile', t, f) - UniqOf(profile, t, f)
            = (IF GroupSize(matches, DOMAIN matches) = 1
               THEN HitsOn(matches, t, f) ELSE 0)]_vars

\* C5: consecutive output rows a, b have fragsProp(a) > fragsProp(b), or
\* equal fragsProp and meanAbundance(a) >= meanAbundance(b).
C5_RankedLexicographically ==
    profPc = "done" =>
        \A i \in 1..(Len(targets) - 1) :
            \/ RatGT(targets[i].FragsProp, targets[i + 1].FragsProp)
            \/ /\ RatEQ(targets[i].FragsProp, targets[i + 1].FragsProp)
               /\ ~RatLT(targets[i].MeanAbundance, targets[i + 1].MeanAbundance)

\* the row of target t among the rows written
RowsOf(rows, t) == {i \in DOMAIN rows : rows[i].Name = t}

\* C6: fragsProp(t) is the number of fragments with more than min_reads
\* reads over the number of fragments; a target is dropped if and only if
\* fragsProp(t) < min_frags_prop or its unique reads sum to less than
\* min_uniq_reads; the abundance of a surviving target is the mean of its
\* per-fragment reads.
C6_FilterRule ==
    [][(profPc = "filter" /\ profPc' = "done") =>
         /\ \A i \in DOMAIN targets' : targets'[i].Name \in DOMAIN profile
         /\ \A t \in DOMAIN profile :
              LET tg == profile[t]
                  n == Len(tg.Match)
                  fp == <<Cardinality({f \in 1..n : tg.Match[f] > minReads * Unit}), n>>
                  dropped == \/ RatLT(fp, minFragsProp)
                             \/ SumSeq(tg.UniqMatch) < minUReads
                  rows == RowsOf(targets', t)
              IN  /\ dropped <=> rows = {}
                  /\ ~dropped => Cardinality(rows) = 1
                  /\ \A i \in rows :
                        /\ RatEQ(targets'[i].FragsProp, fp)
                        /\ targets'[i].MeanAbundance[1] * n * Unit
                             = SumSeq(tg.Match) * targets'[i].MeanAbundance[2]
                        /\ targets'[i].SumUniqMatch = SumSeq(tg.UniqMatch)]_vars

\* C6 witness: the filter ran on a profile of two targets, kept A, whose
\* fragments are matched by half, and dropped B, which the last query hit.
C6_Witness ==
    /\ profPc = "done"
    /\ Len(targets) = 1
    /\ targets[1].Name = "A"
    /\ targets[1].FragsProp = <<1, 2>>
    /\ "B" \in DOMAIN matches

\* a hit with a frags column of 0 is in the group of the current query
ZeroFragsHit ==
    \E t \in DOMAIN matches : \E i \in DOMAIN matches[t] : matches[t][i].IdxNum = 0

\* C16: when the hits of a query are separated by hits of another query in
\* a file, the profiler stops with an error and writes no profile.
C16_UngroupedIsRejected == grouping.ungrouped => profPc \notin {"filter", "done"}

\* C17: once a hit whose frags column is 0 has been read, the profiler
\* neither crashes nor goes on to write a profile.
C17_ZeroFragsIsAnError == ZeroFragsHit => profPc \notin {"panic", "filter", "done"}

\* C18 as stated: the profiler goes on after a line that does not parse;
\* the command ends early only on the first line of a file.
C18_ParseErrorsSkipped == profPc = "exit" => firtLine

\* C18 as the code has it: wherever the scanner stands, the first line of a
\* file is skipped whatever it holds; a later line over the FPR threshold,
\* or within it and under the query coverage threshold, is skipped and
\* nothing is counted; a line that passes both tests and has a field that
\* is not a number ends the command, as does a line whose FPR or query
\* coverage is not a number, and then no row is written.
C18_ParseErrorsAbort ==
    /\ profPc = "exit" => (targets = <<>> /\ ~firtLine)
    /\ profPc = "scan" =>
          \A line \in LineSet \cup DamagedLines \cup ModestLines :
              LET r == Scan(line)
                  cur == [firtLine |-> firtLine, linesRead |-> linesRead,
                          prevQuery |-> prevQuery, matches |-> matches,
                          profile |-> profile, profPc |-> profPc,
                          grouping |-> grouping]
                  fpr == line[4]
                  qcov == line[10]
                  over == fpr # NotANumber /\ fpr > maxFPR
                  under == /\ fpr # NotANumber /\ fpr <= maxFPR
                           /\ qcov # NotANumber /\ qcov < minQcov
                  broken == \E x \in {2, 3, 4, 5, 7, 8, 9, 10} : line[x] = NotANumber
              IN IF firtLine THEN r = [cur EXCEPT !.firtLine = FALSE]
                 ELSE IF over \/ under THEN r = cur
                 ELSE IF broken THEN r = [cur EXCEPT !.profPc = "exit"]
                 ELSE r.profPc \in {"scan", "panic"} /\ r.linesRead = linesRead + 1

\* C18 witness: the command has ended on a line that does not parse, after
\* the hits of a query had been credited to the profile.
C18_Witness ==
    /\ profPc = "exit" /\ ~firtLine
    /\ linesRead >= 2 /\ DOMAIN profile # {} /\ DOMAIN matches # {}

\* ===================================================================
\* kmcp index
\* ===================================================================

\* ------------------------------------------------------------------ bounds
MaxFiles == 3        \* files of a short run
MaxCPUs == 2         \* --threads (opt.NumCPUs) of an index run
MaxOpen == 2         \* --max-open-files
LongRun == 65        \* files of the longest run
kmerThreshold8 == 2  \* --block-max-kmers-t1, in k-mers
HalfBits == 3        \* bits of one half of a k-mer code

\* --block-max-kmers-t2: the command rejects kmerThreshold8 >= kmerThresholdS.
kmerThresholdS == kmerThreshold8 + 2

HalfWord == 2 ^ HalfBits

\* ----------------------------------------------------------- the input files
\* Kinds of .unik files by their number of k-mers: empty, small, above
\* kmerThreshold8, above kmerThresholdS.
KmersOf(kind) ==
    CASE kind = "E" -> 0
      [] kind = "S" -> 1
      [] kind = "M" -> kmerThreshold8 + 1
      [] kind = "B" -> kmerThresholdS + 1

\* A file list of nS small, nM middle, nB big and nE empty files; Path is the
\* position in the list, Kmers is reader.Number.
FileList(nS, nM, nB, nE) ==
    [p \in 1..(nS + nM + nB + nE) |->
        [Path |-> p, Name |-> p, Index |-> 0,
         Kmers |-> KmersOf(IF p <= nS THEN "S"
                           ELSE IF p <= nS + nM THEN "M"
                           ELSE IF p <= nS + nM + nB THEN "B" ELSE "E")]]

\* reader.ReadCodeWithTaxid until io.EOF: the codes stored in a file.
ReadCodes(info) ==
    {(5 * info.Path + 3 * t) % (HalfWord * HalfWord) : t \in 0..(info.Kmers - 1)}

\* UnikFileInfo as returned by getInfo.
UnikFileInfo(file) ==
    [Path |-> file.Path, Name |-> file.Name, Index |-> file.Index,
     Kmers |-> file.Kmers]

\* ------------------------------------------------------------------ the runs
Flags(cpus, rcpus, open, size, dry, cache, buckets, hashes) ==
    [NumCPUs |-> cpus, runtimeNumCPU |-> rcpus, maxOpenFiles |-> open,
     sBlock00 |-> size, dryRun |-> dry, hasInfoCache |-> cache,
     numBuckets |-> buckets, numHashes |-> hashes]

\* The file lists of a short run: at most MaxFiles files of the four kinds.
ShortLists(maxEmpty) ==
    { FileList(c[1], c[2], c[3], c[4]) :
        c \in {x \in (0..MaxFiles) \X (0..MaxFiles) \X (0..MaxFiles) \X (0..maxEmpty) :
                  x[1] + x[2] + x[3] + x[4] \in 1..MaxFiles} }

\* Dry runs that check their files.
CheckRuns ==
    { [files |-> l, flags |-> Flags(cpus, 1, 1, 0, TRUE, FALSE, 0, 1)] :
        l \in ShortLists(1), cpus \in {1, MaxCPUs} }

\* A build on two threads that checks its three files of one size.
UncachedRuns ==
    { [files |-> FileList(3, 0, 0, 0),
       flags |-> Flags(2, 1, 1, 0, FALSE, FALSE, 0, 1)] }

\* The file list l with the name and fragment index of file q given to file p
\* as well.
Renamed(l, p, q) == [l EXCEPT ![p].Name = l[q].Name, ![p].Index = l[q].Index]

\* Builds of three files of which two have one name and fragment index, with
\* an empty file and without, that check their files or load the cache.
DuplicateRuns ==
    { [files |-> Renamed(l, p, 1),
       flags |-> Flags(2, 1, 1, 0, FALSE, cache, 0, 1)] :
        l \in {FileList(3, 0, 0, 0), FileList(2, 0, 0, 1)}, p \in 2..3,
        cache \in BOOLEAN }

\* Builds from cached file infos, one bucket per file, on one thread and on
\* two, with one open file allowed and with MaxOpen.
BuildRuns ==
    { [files |-> l, flags |-> Flags(cpus, 1, open, 0, FALSE, TRUE, 0, 1)] :
        l \in ShortLists(0), cpus \in {1, 2}, open \in {1, MaxOpen} }

\* Builds from cached file infos that hash the files into two buckets.
BucketRuns ==
    { [files |-> l, flags |-> Flags(1, 1, 1, 0, FALSE, TRUE, 2, 1)] :
        l \in ShortLists(1) }

\* Long runs: a block of two planes filled with one or two hash functions, a
\* block of three planes filled by two threads, a run whose block size drops
\* to 8 on the way, and a run of LongRun small files on machines of one and
\* four CPUs.
LongRuns ==
    { [files |-> FileList(9, 0, 0, 0),
       flags |-> Flags(cpus, 1, open, 0, FALSE, TRUE, 0, h)] :
        cpus \in {1, MaxCPUs}, open \in {1, MaxOpen}, h \in 1..2 }
    \cup
    { [files |-> FileList(8 + 8 + 1, 0, 0, 0),
       flags |-> Flags(2, 1, 1, 0, FALSE, TRUE, 0, 1)] }
    \cup
    { [files |-> FileList(18, 1, 0, 0),
       flags |-> Flags(1, 1, 1, 16, d, TRUE, 0, 1)] : d \in BOOLEAN }
    \cup
    { [files |-> FileList(LongRun, 0, 0, 0),
       flags |-> Flags(1, rcpus, 1, 0, FALSE, TRUE, 0, 1)] : rcpus \in {1, 4} }

Runs ==
    CheckRuns \cup UncachedRuns \cup DuplicateRuns \cup BuildRuns \cup BucketRuns
    \cup LongRuns

InitIndex ==
    /\ SearchIdle /\ ProfileIdle
    /\ \E r \in Runs : files = r.files /\ flags = r.flags
    /\ idxPc = "start" /\ openFiles = 0
    /\ nextFile = 2 /\ getInfoPc = <<>> /\ chInfos = <<>> /\ fileInfos0 = <<>>
    /\ warnings = <<>>
    /\ fileInfoGroups = <<>> /\ sBlock = 0 /\ walkI = 0 /\ batch = <<>>
    /\ flag = FALSE /\ flag8 = FALSE /\ lastInfos = <<>> /\ blockNo = 0
    /\ blocks = <<>>

walkVars == <<fileInfoGroups, sBlock, walkI, batch, flag, flag8, lastInfos, blockNo>>

checkVars == <<nextFile, getInfoPc, chInfos, fileInfos0, warnings>>

\* ------------------------------------------------------- checking the files
\* getInfo(file, true) of the first file, up to inStream: the file is open.
FirstOpen ==
    /\ idxPc = "start"
    /\ idxPc' = "first"
    /\ openFiles' = openFiles + 1
    /\ UNCHANGED <<flags, files, checkVars, walkVars, blocks, otherThanIndex>>

\* getInfo of the first file returns after r.Close(): with a usable cache
\* the file infos are those of the cache and no other file is checked.
FirstClose ==
    /\ idxPc = "first"
    /\ openFiles' = openFiles - 1
    /\ IF flags.hasInfoCache
       THEN /\ fileInfos0' = [p \in DOMAIN files |-> UnikFileInfo(files[p])]
            /\ idxPc' = "buckets"
       ELSE /\ fileInfos0' = <<UnikFileInfo(files[1])>>
            /\ idxPc' = "check"
    /\ UNCHANGED <<flags, files, nextFile, getInfoPc, chInfos, warnings, walkVars,
                   blocks, otherThanIndex>>

\* tokens held in tokensGetInfo: one per live getInfo goroutine.
tokensGetInfo ==
    Cardinality({p \in DOMAIN getInfoPc : getInfoPc[p] # "done"})

\* for _, file := range files[1:]: tokensGetInfo <- 1 and go func(file).
SpawnGetInfo ==
    /\ idxPc = "check" /\ nextFile <= Len(files)
    /\ tokensGetInfo < flags.NumCPUs
    /\ getInfoPc' = MapPut(getInfoPc, nextFile, "start")
    /\ nextFile' = nextFile + 1
    /\ UNCHANGED <<flags, files, idxPc, openFiles, chInfos, fileInfos0, warnings, walkVars,
                   blocks, otherThanIndex>>

\* getInfo(file, false), up to inStream: the file is open.
GetInfoOpen(p) ==
    /\ p \in DOMAIN getInfoPc /\ getInfoPc[p] = "start"
    /\ getInfoPc' = [getInfoPc EXCEPT ![p] = "open"]
    /\ openFiles' = openFiles + 1
    /\ UNCHANGED <<flags, files, idxPc, nextFile, chInfos, fileInfos0, warnings, walkVars,
                   blocks, otherThanIndex>>

\* getInfo closes the file and returns its info.
GetInfoClose(p) ==
    /\ p \in DOMAIN getInfoPc /\ getInfoPc[p] = "open"
    /\ getInfoPc' = [getInfoPc EXCEPT ![p] = "send"]
    /\ openFiles' = openFiles - 1
    /\ UNCHANGED <<flags, files, idxPc, nextFile, chInfos, fileInfos0, warnings, walkVars,
                   blocks, otherThanIndex>>

\* chInfos <- info, then the deferred wgGetInfo.Done() and <-tokensGetInfo.
GetInfoSend(p) ==
    /\ p \in DOMAIN getInfoPc /\ getInfoPc[p] = "send"
    /\ Len(chInfos) < flags.NumCPUs
    /\ chInfos' = Append(chInfos, UnikFileInfo(files[p]))
    /\ getInfoPc' = [getInfoPc EXCEPT ![p] = "done"]
    /\ UNCHANGED <<flags, files, idxPc, openFiles, nextFile, fileInfos0, warnings,
                   walkVars, blocks, otherThanIndex>>

\* the key of namesMap: info.Name, sepNameIdx and info.Index
NameKey(info) == <<info.Name, info.Index>>

\* namesMap holds the key of every file info collected so far: of the first
\* file and of every info taken from chInfos, new or not.
namesMap == {NameKey(fileInfos0[x]) : x \in DOMAIN fileInfos0}

\* a collector that takes no name for a duplicate
DuplicatedNameNever(info) == FALSE

\* "if _, ok = namesMap[nameHash]; ok"
DuplicatedName(info) == NameKey(info) \in namesMap

\* The collector of chInfos appends the infos in the order they arrive and
\* warns of an info whose name and fragment index it has met before.
CollectInfo ==
    /\ chInfos # <<>>
    /\ fileInfos0' = Append(fileInfos0, Head(chInfos))
    /\ warnings' = IF DuplicatedName(Head(chInfos))
                   THEN Append(warnings, [text |-> "duplicated name",
                                          name |-> Head(chInfos).Name])
                   ELSE warnings
    /\ chInfos' = Tail(chInfos)
    /\ UNCHANGED <<flags, files, idxPc, openFiles, nextFile, getInfoPc, walkVars,
                   blocks, otherThanIndex>>

\* a main goroutine that does not wait for the collector of chInfos
CheckDoneEarly ==
    /\ idxPc = "check" /\ nextFile > Len(files)
    /\ tokensGetInfo = 0
    /\ idxPc' = "buckets"
    /\ UNCHANGED <<flags, files, openFiles, checkVars, walkVars, blocks,
                   otherThanIndex>>

\* wgGetInfo.Wait(), close(chInfos), <-doneGetInfo.
CheckDone ==
    /\ idxPc = "check" /\ nextFile > Len(files)
    /\ tokensGetInfo = 0 /\ chInfos = <<>>
    /\ idxPc' = "buckets"
    /\ UNCHANGED <<flags, files, openFiles, checkVars, walkVars, blocks,
                   otherThanIndex>>

\* ------------------------------------------------------------- the buckets
\* bIdx of the jj-th file info (jj from 0): its own bucket when numBuckets is
\* 0, else the hash of its path modulo numBuckets.
BucketIndex(jj, info) ==
    IF flags.numBuckets = 0 THEN jj ELSE info.Path % flags.numBuckets

\* fileInfoGroups before sorting: the infos of every bucket, in the order of
\* fileInfos0, and the sum of their k-mers.
Buckets(infos) ==
    [bb \in 1..(IF flags.numBuckets = 0 THEN Len(infos) ELSE flags.numBuckets) |->
        LET idx == SeqOfSet({jj \in DOMAIN infos :
                               BucketIndex(jj - 1, infos[jj]) = bb - 1})
            members == [x \in DOMAIN idx |-> infos[idx[x]]]
        IN [Infos |-> members,
            Kmers |-> SumSeq([x \in DOMAIN members |-> members[x].Kmers])]]

RECURSIVE SizeOrders(_, _)
\* The orders of the sizes of which left[v] are of size v, that do not start
\* with prev: a run of one size, then an order of the rest that starts with
\* another size.
SizeOrders(left, prev) ==
    IF \A v \in DOMAIN left : left[v] = 0 THEN {<<>>}
    ELSE UNION { UNION { {[x \in 1..c |-> v] \o rest :
                             rest \in SizeOrders([left EXCEPT ![v] = @ - c], v)} :
                         c \in 1..left[v] } :
                 v \in {u \in DOMAIN left : left[u] > 0 /\ u # prev} }

\* the buckets gs in the order of sizes o, buckets of one size in their order
InOrder(gs, o) ==
    [i \in DOMAIN o |->
        SelectSeq(gs, LAMBDA g : g.Kmers = o[i])
            [Cardinality({j \in 1..i : o[j] = o[i]})]]

\* The orders sorts.Quicksort(UnikFileInfoGroups(...)) may leave: the buckets
\* are sorted by their k-mers with a comparator that is not part of the
\* sources, so every order of the sizes is admitted; buckets of one size keep
\* their order.
Arrangements(gs) ==
    LET sizes == {gs[x].Kmers : x \in DOMAIN gs}
        left == [v \in sizes |-> Cardinality({x \in DOMAIN gs : gs[x].Kmers = v})]
    IN {InOrder(gs, o) : o \in SizeOrders(left, -1)}

\* a block size of min(nFiles / cpus, 8) rounded up to a multiple of 8
BlockSizeMin(nFiles) ==
    LET q == nFiles \div flags.runtimeNumCPU
        s0 == IF flags.sBlock00 <= 0
              THEN (((IF q < 8 THEN q ELSE 8) + 7) \div 8) * 8
              ELSE flags.sBlock00
    IN s0

\* The block size: from --block-size, or from the number of buckets and the
\* machine's CPUs, at least 8 and else at most the number of buckets.
BlockSize(nFiles) ==
    LET s0 == IF flags.sBlock00 <= 0
              THEN (((nFiles \div flags.runtimeNumCPU) + 7) \div 8) * 8
              ELSE flags.sBlock00
    IN IF s0 < 8 THEN 8 ELSE IF s0 > nFiles THEN nFiles ELSE s0

\* Buckets are filled and sorted, the block size is set, the walk starts.
MakeGroups ==
    /\ idxPc = "buckets"
    /\ \E gs \in {Buckets(fileInfos0)} : fileInfoGroups' \in Arrangements(gs)
    /\ sBlock' = BlockSize(Len(Buckets(fileInfos0)))
    /\ walkI' = 0 /\ batch' = <<>> /\ flag' = FALSE /\ flag8' = FALSE
    /\ lastInfos' = <<>> /\ blockNo' = 0
    /\ idxPc' = "walk"
    /\ UNCHANGED <<flags, files, openFiles, checkVars, blocks, otherThanIndex>>

\* --------------------------------------------------------- the batching walk
\* a walk that never takes a bucket for a very big one
AboveThresholdSNever(infoGroup) == FALSE

\* infoGroup.Kmers > kmerThresholdS
AboveThresholdS(infoGroup) == infoGroup.Kmers > kmerThresholdS

\* a walk that lowers the block size to 16
SmallBlockWide == 8 + 8

\* The block size from the first bucket above kmerThreshold8 on.
SmallBlock == 8

\* a walk that takes the empty buckets as well
EmptyBucketNever(infoGroup) == FALSE

\* "if infoGroup.Kmers == 0": the bucket is skipped.
EmptyBucket(infoGroup) == infoGroup.Kmers = 0

\* a walk that never takes a batch for filled
NotFilledEver(n) == TRUE

\* "if len(batch) < sBlock { // not filled": the walk goes on with the batch.
NotFilled(n) == n < sBlock

\* a walk that forgets the very big bucket it has met
AfterVeryBigNever == FALSE

\* "if flag": a bucket above kmerThresholdS has been met before.
AfterVeryBig == flag

\* The body of "for i := 0; i <= nFiles; i++" down to the test of len(batch):
\* the new batch, lastInfos, flags and block size, and whether the body left
\* by one of its "continue" statements.
WalkBody ==
    LET nFiles == Len(fileInfoGroups)
        pending == (flag \/ flag8) /\ lastInfos # <<>>
        batch1 == IF pending THEN Append(batch, lastInfos) ELSE batch
        last1 == IF pending THEN <<>> ELSE lastInfos
        same == [batch |-> batch, lastInfos |-> lastInfos, flag |-> flag,
                 flag8 |-> flag8, sBlock |-> sBlock, continue |-> TRUE]
    IN IF walkI = nFiles
       THEN [same EXCEPT !.batch = batch1, !.lastInfos = last1, !.continue = FALSE]
       ELSE LET infoGroup == fileInfoGroups[walkI + 1]
                infos == infoGroup.Infos
            IN IF EmptyBucket(infoGroup) THEN same
               ELSE IF flag \/ flag8
               THEN IF AfterVeryBig
                    THEN [same EXCEPT !.batch = batch1, !.lastInfos = infos,
                                      !.continue = FALSE]
                    ELSE IF AboveThresholdS(infoGroup)
                    THEN [same EXCEPT !.batch = batch1, !.lastInfos = infos,
                                      !.flag = TRUE, !.continue = FALSE]
                    ELSE [same EXCEPT !.batch = Append(batch1, infos),
                                      !.lastInfos = last1,
                                      !.continue = NotFilled(Len(batch1) + 1)]
               ELSE IF infoGroup.Kmers > kmerThreshold8
               THEN IF AboveThresholdS(infoGroup)
                    THEN [same EXCEPT !.lastInfos = infos, !.flag = TRUE,
                                      !.continue = FALSE]
                    ELSE [same EXCEPT !.lastInfos = infos, !.flag8 = TRUE,
                                      !.sBlock = SmallBlock, !.continue = FALSE]
               ELSE [same EXCEPT !.batch = Append(batch, infos),
                                 !.continue = NotFilled(Len(batch) + 1)]

RECURSIVE NextPow2From(_, _)
NextPow2From(p, n) == IF p >= n THEN p ELSE NextPow2From(2 * p, n)

\* CalcSignatureSize for the default false positive rate 0.3: the least power
\* of two that is at least ceil(-n ln(0.3) / (ln 2)^2).
CalcSignatureSize(n) == NextPow2From(1, (n * 250591 + 99999) \div 100000)

\* a size taken from all the k-mers of a batch
MaxElementsOfAll(bt) ==
    SumSeq([c \in DOMAIN bt |-> SumSeq([x \in DOMAIN bt[c] |-> bt[c][x].Kmers])])

\* maxElements: the largest sum of k-mers over the buckets of a batch.
MaxElements(bt) ==
    Max({0} \cup {SumSeq([x \in DOMAIN bt[c] |-> bt[c][x].Kmers]) : c \in DOMAIN bt})

\* The state of the worker of a block at "go func(batch, b, prefix, bar)".
\* Two fields record the walk: sBlock, the block size in force while the
\* batch was assembled, and flag8, whether a bucket above kmerThreshold8 had
\* been met before the iteration that emitted the block.
NewBlock(bt, size, after8) ==
    [batch |-> bt, sBlock |-> size, flag8 |-> after8,
     maxElements |-> MaxElements(bt),
     numSigs |-> CalcSignatureSize(MaxElements(bt)),
     nBatchFiles |-> (Len(bt) + 7) \div 8,
     ii |-> 0, bb |-> 0, planes |-> <<>>,
     chBatch8 |-> <<>>, id |-> 1, buf |-> <<>>, sigsBlock |-> <<>>,
     namesBlock |-> <<>>, pc |-> "planes", rows |-> <<>>, flushed |-> FALSE]

\* tokens held in tokens0: one per block worker that has not finished.
tokens0 == Cardinality({n \in DOMAIN blocks : blocks[n].pc # "done"})

maxConc == IF flags.dryRun THEN 1 ELSE flags.NumCPUs

\* One iteration of the walk. An iteration that emits a block takes a token
\* of tokens0 first and hands the batch to a new block worker.
WalkStep ==
    /\ idxPc = "walk"
    /\ LET r == WalkBody
           nFiles == Len(fileInfoGroups)
           emit == ~r.continue /\ r.batch # <<>>
           break == ~r.continue /\ r.batch = <<>> /\ r.lastInfos = <<>>
       IN /\ emit => tokens0 < maxConc
          /\ flag' = r.flag /\ flag8' = r.flag8 /\ sBlock' = r.sBlock
          /\ lastInfos' = r.lastInfos
          /\ batch' = IF emit THEN <<>> ELSE r.batch
          /\ blockNo' = IF emit THEN blockNo + 1 ELSE blockNo
          /\ blocks' = IF emit THEN Append(blocks, NewBlock(r.batch, sBlock, flag8))
                       ELSE blocks
          /\ walkI' = IF break THEN walkI ELSE walkI + 1
          /\ idxPc' = IF break \/ walkI + 1 > nFiles THEN "wait" ELSE "walk"
    /\ UNCHANGED <<flags, files, openFiles, checkVars, fileInfoGroups,
                   otherThanIndex>>

\* ------------------------------------------------- block and plane workers
\* plane workers that never give their token back
tokensKept(n) == Len(blocks[n].planes)

\* tokens held in tokens of block n: one per plane worker that has not finished.
tokens(n) ==
    Cardinality({w \in DOMAIN blocks[n].planes : blocks[n].planes[w].pc # "done"})

\* tokens held in tokensOpenFiles: one per plane worker between its
\* "tokensOpenFiles <- 1" and its "<-tokensOpenFiles".
tokensOpenFiles ==
    Cardinality({nw \in {<<n, w>> : n \in DOMAIN blocks, w \in 1..((LongRun + 8) \div 8)} :
                    /\ nw[2] \in DOMAIN blocks[nw[1]].planes
                    /\ blocks[nw[1]].planes[nw[2]].pc = "open"})

\* a plane that takes all the columns left
PlaneEndAll(ii, nInfoGroups) == nInfoGroups

\* jj: the end of the plane that starts at column ii.
PlaneEnd(ii, nInfoGroups) == IF ii + 8 > nInfoGroups THEN nInfoGroups ELSE ii + 8

\* _names of a bucket: the names of its files after
\* sorts.Quicksort(UnikFileInfosByName(infos)); a file is named by its path.
Names(infos) == SeqOfSet({infos[x].Path : x \in DOMAIN infos})

\* "for ii := 0; ii < nInfoGroups; ii += 8" of a build: take a token of
\* tokens and start the worker of the next plane on batch[ii:jj].
PlaneSpawn(n) ==
    /\ n \in DOMAIN blocks /\ blocks[n].pc = "planes" /\ ~flags.dryRun
    /\ blocks[n].ii < Len(blocks[n].batch)
    /\ tokens(n) < flags.NumCPUs
    /\ LET blk == blocks[n]
           jj == PlaneEnd(blk.ii, Len(blk.batch))
           _batch == SubSeq(blk.batch, blk.ii + 1, jj)
           worker == [pc |-> "next", batch8 |-> _batch,
                      names |-> [c \in DOMAIN _batch |-> Names(_batch[c])],
                      k |-> 0, f |-> 1,
                      sigs |-> [r \in 0..(blk.numSigs - 1) |-> 0]]
       IN blocks' = [blocks EXCEPT ![n].planes = Append(blk.planes, worker),
                                   ![n].ii = blk.ii + 8,
                                   ![n].bb = blk.bb + 1]
    /\ UNCHANGED <<flags, files, idxPc, openFiles, checkVars, walkVars,
                   otherThanIndex>>

\* A plane worker takes a token of tokensOpenFiles and opens its next file.
PlaneOpen(n, w) ==
    /\ n \in DOMAIN blocks /\ w \in DOMAIN blocks[n].planes
    /\ blocks[n].planes[w].pc = "next"
    /\ tokensOpenFiles < flags.maxOpenFiles
    /\ blocks' = [blocks EXCEPT ![n].planes[w].pc = "open"]
    /\ openFiles' = openFiles + 1
    /\ UNCHANGED <<flags, files, idxPc, checkVars, walkVars, otherThanIndex>>

\* hashLocationsFaster: the h positions (h1 + i h2) mod numSigs of a code,
\* h1 and h2 being the low and the high half of the code.
hashLocationsFaster(code, numHashes, numSigsM1) ==
    {((code % HalfWord) + x * (code \div HalfWord)) % (numSigsM1 + 1) :
        x \in 0..(numHashes - 1)}

RECURSIVE BitAnd(_, _)
\* x & y on non-negative integers
BitAnd(x, y) ==
    IF x = 0 \/ y = 0 THEN 0
    ELSE (x % 2) * (y % 2) + 2 * BitAnd(x \div 2, y \div 2)

\* The positions of a code: code & numSigsM1 for a single hash.
Locations(code, numSigs) ==
    IF flags.numHashes = 1 THEN {BitAnd(code, numSigs - 1)}
    ELSE hashLocationsFaster(code, flags.numHashes, numSigs - 1)

\* byte | (1 << shift)
OrBit(byte, shift) ==
    IF (byte \div (2 ^ shift)) % 2 = 1 THEN byte ELSE byte + 2 ^ shift

\* The plane worker reads the codes of the open file of its column k and
\* sets bit 7 - k at their positions, closes the file, returns the token and
\* goes to its next file, or is ready to send its plane.
PlaneReadClose(n, w) ==
    /\ n \in DOMAIN blocks /\ w \in DOMAIN blocks[n].planes
    /\ blocks[n].planes[w].pc = "open"
    /\ LET pl == blocks[n].planes[w]
           infos == pl.batch8[pl.k + 1]
           locs == UNION {Locations(code, blocks[n].numSigs) :
                             code \in ReadCodes(infos[pl.f])}
           sigs == [r \in DOMAIN pl.sigs |->
                       IF r \in locs THEN OrBit(pl.sigs[r], 7 - pl.k) ELSE pl.sigs[r]]
           more == pl.f < Len(infos)
           last == ~more /\ pl.k + 1 = Len(pl.batch8)
       IN blocks' = [blocks EXCEPT ![n].planes[w] =
                        [pl EXCEPT !.sigs = sigs,
                                   !.f = IF more THEN pl.f + 1 ELSE 1,
                                   !.k = IF more THEN pl.k ELSE pl.k + 1,
                                   !.pc = IF last THEN "send" ELSE "next"]]
    /\ openFiles' = openFiles - 1
    /\ UNCHANGED <<flags, files, idxPc, checkVars, walkVars, otherThanIndex>>

\* a plane worker that sends its buffer while it is still filling it
PlaneSendWhileFilling(n, w) ==
    /\ n \in DOMAIN blocks /\ w \in DOMAIN blocks[n].planes
    /\ blocks[n].planes[w].pc = "next"
    /\ \A x \in DOMAIN blocks[n].chBatch8 : blocks[n].chBatch8[x].id # w
    /\ w \notin DOMAIN blocks[n].buf /\ w >= blocks[n].id
    /\ blocks' = [blocks EXCEPT
                    ![n].chBatch8 = Append(blocks[n].chBatch8,
                                           [id |-> w, sigs |-> blocks[n].planes[w].sigs,
                                            names |-> blocks[n].planes[w].names])]
    /\ UNCHANGED <<flags, files, idxPc, openFiles, checkVars, walkVars,
                   otherThanIndex>>

\* chBatch8 <- batch8s{id, sigs, ...}, then wg.Done() and <-tokens.
PlaneSend(n, w) ==
    /\ n \in DOMAIN blocks /\ w \in DOMAIN blocks[n].planes
    /\ blocks[n].planes[w].pc = "send"
    /\ blocks' = [blocks EXCEPT
                    ![n].chBatch8 = Append(blocks[n].chBatch8,
                                           [id |-> w, sigs |-> blocks[n].planes[w].sigs,
                                            names |-> blocks[n].planes[w].names]),
                    ![n].planes[w].pc = "done"]
    /\ UNCHANGED <<flags, files, idxPc, openFiles, checkVars, walkVars,
                   otherThanIndex>>

RECURSIVE Drain(_)
\* "for { if _batch, ok := buf[id]; ok {...} else { break } }"
Drain(c) ==
    IF c.id \in DOMAIN c.buf
    THEN Drain([sigsBlock |-> Append(c.sigsBlock, c.buf[c.id].sigs),
                namesBlock |-> c.namesBlock \o c.buf[c.id].names,
                buf |-> MapDelete(c.buf, c.id), id |-> c.id + 1])
    ELSE c

\* a collector that takes the planes as they come
CollectAsReceived(c, batch2) ==
    [sigsBlock |-> Append(c.sigsBlock, batch2.sigs),
     namesBlock |-> c.namesBlock \o batch2.names, buf |-> c.buf, id |-> c.id + 1]

\* The collector of chBatch8 on one plane: the plane with the awaited id
\* joins sigsBlock, any other plane waits in buf.
Collect(c, batch2) ==
    IF batch2.id = c.id
    THEN [sigsBlock |-> Append(c.sigsBlock, batch2.sigs),
          namesBlock |-> c.namesBlock \o batch2.names, buf |-> c.buf,
          id |-> c.id + 1]
    ELSE LET d == Drain(c)
         IN [d EXCEPT !.buf = MapPut(d.buf, batch2.id, batch2)]

CollectBatch8(n) ==
    /\ n \in DOMAIN blocks /\ blocks[n].chBatch8 # <<>>
    /\ LET blk == blocks[n]
           c == Collect([sigsBlock |-> blk.sigsBlock, namesBlock |-> blk.namesBlock,
                         buf |-> blk.buf, id |-> blk.id],
                        Head(blk.chBatch8))
       IN blocks' = [blocks EXCEPT ![n].chBatch8 = Tail(blk.chBatch8),
                                   ![n].sigsBlock = c.sigsBlock,
                                   ![n].namesBlock = c.namesBlock,
                                   ![n].buf = c.buf, ![n].id = c.id]
    /\ UNCHANGED <<flags, files, idxPc, openFiles, checkVars, walkVars,
                   otherThanIndex>>

\* The rows of the block file: row ii holds byte ii of every plane.
Rows(nBatchFiles, numSigs, sigsBlock) ==
    IF nBatchFiles = 1
    THEN [r \in 0..(numSigs - 1) |-> <<sigsBlock[1][r]>>]
    ELSE [r \in 0..(numSigs - 1) |->
             [jj \in 1..nBatchFiles |-> sigsBlock[jj][r]]]

\* ids of buf from the highest down
BufIdsDescending(buf) == Reverse(SeqOfSet(DOMAIN buf))

\* ids of buf after sort.Ints(ids)
BufIds(buf) == SeqOfSet(DOMAIN buf)

\* The collector after close(chBatch8): the planes left in buf join
\* sigsBlock in the order of their ids.
Flush(sigsBlock, buf) ==
    LET ids == BufIds(buf)
    IN sigsBlock \o [x \in DOMAIN ids |-> buf[ids[x]].sigs]

RECURSIVE Concat(_)
Concat(ss) == IF ss = <<>> THEN <<>> ELSE Head(ss) \o Concat(Tail(ss))

\* and their names join namesBlock in the same order.
FlushNames(namesBlock, buf) ==
    LET ids == BufIds(buf)
    IN namesBlock \o Concat([x \in DOMAIN ids |-> buf[ids[x]].names])

\* The block worker after its loop: wg.Wait(), close(chBatch8), and once the
\* collector has taken its last plane and flushed buf, <-doneBatch8; unless
\* the run is dry the rows are handed to the writer of the block file, then
\* wg0.Done(), <-tokens0. The deferred calls that flush and close the file
\* have not run yet.
BlockWrite(n) ==
    /\ n \in DOMAIN blocks /\ blocks[n].pc = "planes"
    /\ flags.dryRun \/ blocks[n].ii >= Len(blocks[n].batch)
    /\ tokens(n) = 0
    /\ blocks[n].chBatch8 = <<>>
    /\ LET blk == blocks[n]
           all == Flush(blk.sigsBlock, blk.buf)
       IN blocks' = [blocks EXCEPT
                        ![n].sigsBlock = all,
                        ![n].namesBlock = FlushNames(blk.namesBlock, blk.buf),
                        ![n].rows = IF flags.dryRun THEN <<>>
                                    ELSE Rows(blk.nBatchFiles, blk.numSigs, all),
                        ![n].pc = "done"]
    /\ UNCHANGED <<flags, files, idxPc, openFiles, checkVars, walkVars,
                   otherThanIndex>>

\* The deferred calls of a block worker of a build, run when its function
\* returns, that is after wg0.Done() and <-tokens0: writer.Flush(),
\* outfh.Flush(), gw.Close(), w.Close().
BlockFlush(n) ==
    /\ n \in DOMAIN blocks /\ blocks[n].pc = "done"
    /\ ~flags.dryRun /\ ~blocks[n].flushed
    /\ blocks' = [blocks EXCEPT ![n].flushed = TRUE]
    /\ UNCHANGED <<flags, files, idxPc, openFiles, checkVars, walkVars,
                   otherThanIndex>>

\* wg0.Wait() after the walk.
IndexWait ==
    /\ idxPc = "wait" /\ tokens0 = 0
    /\ idxPc' = "done"
    /\ UNCHANGED <<flags, files, openFiles, checkVars, walkVars, blocks,
                   otherThanIndex>>

\* a command that writes the database descriptor in a dry run as well
OutputFilesDescribed ==
    (IF flags.dryRun \/ idxPc \in {"flags", "rejected", "outdir"} THEN {}
     ELSE {<<"outDir", 0>>}
          \cup {<<"block", n>> : n \in {x \in DOMAIN blocks :
                                           blocks[x].pc \in {"done", "failed"}}})
    \cup (IF idxPc = "done" THEN {<<"dbInfoFile", 0>>} ELSE {})

\* The output directory and the files in it: the directory from makeOutDir
\* on, the file of every block whose worker has come to outStream, and the
\* database descriptor and the name mapping file once the blocks are
\* written; a dry run makes none of them.
OutputFiles ==
    IF flags.dryRun \/ idxPc \in {"flags", "rejected", "outdir"} THEN {}
    ELSE {<<"outDir", 0>>}
         \cup {<<"block", n>> : n \in {x \in DOMAIN blocks :
                                          blocks[x].pc \in {"done", "failed"}}}
         \cup (IF idxPc = "done"
               THEN {<<"dbInfoFile", 0>>, <<"dbNameMappingFile", 0>>} ELSE {})

NextIndex ==
    \/ FirstOpen \/ FirstClose \/ SpawnGetInfo
    \/ \E p \in DOMAIN files : GetInfoOpen(p) \/ GetInfoClose(p) \/ GetInfoSend(p)
    \/ CollectInfo \/ CheckDone \/ MakeGroups \/ WalkStep
    \/ \E n \in DOMAIN blocks :
          \/ PlaneSpawn(n) \/ CollectBatch8(n) \/ BlockWrite(n)
          \/ \E w \in DOMAIN blocks[n].planes :
                PlaneOpen(n, w) \/ PlaneReadClose(n, w) \/ PlaneSend(n, w)
    \/ IndexWait

\* The goroutines up to their last statement.
SpecIndex == InitIndex /\ [][NextIndex]_vars

\* and the deferred calls of the block workers.
NextIndexFlush == NextIndex \/ \E n \in DOMAIN blocks : BlockFlush(n)

\* ------------------------------------------------- builds under fair scheduling
\* Builds of one block of two planes and of three planes, and of three blocks
\* (a small file and two big ones), on one thread and on MaxCPUs, with one
\* open file allowed and with MaxOpen; a dry run of two blocks; and a build
\* that checks its files first.
FairRuns ==
    { [files |-> l, flags |-> Flags(cpus, 1, open, 0, FALSE, TRUE, 0, 1)] :
        l \in {FileList(9, 0, 0, 0), FileList(8 + 8 + 1, 0, 0, 0),
                FileList(1, 0, 2, 0)},
        cpus \in {1, MaxCPUs}, open \in {1, MaxOpen} }
    \cup
    { [files |-> FileList(18, 1, 0, 0),
       flags |-> Flags(1, 1, 1, 16, TRUE, TRUE, 0, 1)] }
    \cup UncachedRuns

InitIndexFair ==
    /\ SearchIdle /\ ProfileIdle
    /\ \E r \in FairRuns : files = r.files /\ flags = r.flags
    /\ idxPc = "start" /\ openFiles = 0
    /\ nextFile = 2 /\ getInfoPc = <<>> /\ chInfos = <<>> /\ fileInfos0 = <<>>
    /\ warnings = <<>>
    /\ fileInfoGroups = <<>> /\ sBlock = 0 /\ walkI = 0 /\ batch = <<>>
    /\ flag = FALSE /\ flag8 = FALSE /\ lastInfos = <<>> /\ blockNo = 0
    /\ blocks = <<>>

\* Every goroutine that can take a step is scheduled in the end.
SpecIndexFair ==
    InitIndexFair /\ [][NextIndexFlush]_vars /\ WF_vars(NextIndexFlush)

\* ------------------------------------------------- the shared accumulators
\* var total: the results the serializer has counted, one for every result
\* it has taken from sg.OutCh (with --verbose).
total == Cardinality(Range(forwarded) \cup DOMAIN m)

\* var matched: the results with matches the printer has counted.
matched ==
    Cardinality({printed[x].queryIdx : x \in {y \in DOMAIN printed :
                                                  printed[y].hits > 0}})

\* A run of "kmcp index" or a run of "kmcp search" on at most two threads.
SpecAccumulators ==
    /\ InitIndexFair \/ (InitSearch /\ threads <= 2)
    /\ [][NextIndex \/ NextSearch]_vars

\* ------------------------------------------------- builds that meet an error
\* A build on two threads that checks its three files, and a build on two
\* threads of two files that each take a block of their own.
FailRuns ==
    UncachedRuns
    \cup { [files |-> FileList(0, 0, 2, 0),
            flags |-> Flags(2, 1, 1, 0, FALSE, TRUE, 0, 1)] }

InitIndexFail ==
    /\ SearchIdle /\ ProfileIdle
    /\ \E r \in FailRuns : files = r.files /\ flags = r.flags
    /\ idxPc = "start" /\ openFiles = 0
    /\ nextFile = 2 /\ getInfoPc = <<>> /\ chInfos = <<>> /\ fileInfos0 = <<>>
    /\ warnings = <<>>
    /\ fileInfoGroups = <<>> /\ sBlock = 0 /\ walkI = 0 /\ batch = <<>>
    /\ flag = FALSE /\ flag8 = FALSE /\ lastInfos = <<>> /\ blockNo = 0
    /\ blocks = <<>>

\* unikmer.NewReader or reader.ReadCodeWithTaxid returns an error other than
\* io.EOF on the open file of a plane worker: checkError ends the command.
\* The block of the worker has no file yet.
PlaneReadFails(n, w) ==
    /\ idxPc # "exit"
    /\ n \in DOMAIN blocks /\ w \in DOMAIN blocks[n].planes
    /\ blocks[n].planes[w].pc = "open"
    /\ idxPc' = checkError(idxPc)
    /\ UNCHANGED <<flags, files, openFiles, checkVars, walkVars, blocks,
                   otherThanIndex>>

\* The rows of a block file that has been written up to row k.
RowsUpTo(rows, k) == [r \in 0..(k - 1) |-> rows[r]]

\* The block worker has created the file of its block with outStream under
\* the name of the block; writer.Write returns an error at row k, or
\* writer.Flush after the last row: checkError ends the command.
BlockWriteFails(n) ==
    /\ idxPc # "exit"
    /\ n \in DOMAIN blocks /\ blocks[n].pc = "planes"
    /\ ~flags.dryRun /\ blocks[n].ii >= Len(blocks[n].batch)
    /\ tokens(n) = 0
    /\ blocks[n].chBatch8 = <<>>
    /\ \E k \in 0..blocks[n].numSigs :
          LET blk == blocks[n]
              all == Flush(blk.sigsBlock, blk.buf)
          IN blocks' = [blocks EXCEPT
                           ![n].sigsBlock = all,
                           ![n].namesBlock = FlushNames(blk.namesBlock, blk.buf),
                           ![n].rows = RowsUpTo(Rows(blk.nBatchFiles, blk.numSigs, all), k),
                           ![n].pc = "failed"]
    /\ idxPc' = checkError(idxPc)
    /\ UNCHANGED <<flags, files, openFiles, checkVars, walkVars, otherThanIndex>>

\* The steps of a build go on until the command has ended.
NextIndexFail ==
    \/ idxPc # "exit" /\ FirstOpen
    \/ idxPc # "exit" /\ FirstClose
    \/ idxPc # "exit" /\ SpawnGetInfo
    \/ \E p \in DOMAIN files :
          \/ idxPc # "exit" /\ GetInfoOpen(p)
          \/ idxPc # "exit" /\ GetInfoClose(p)
          \/ idxPc # "exit" /\ GetInfoSend(p)
    \/ idxPc # "exit" /\ CollectInfo
    \/ idxPc # "exit" /\ CheckDone
    \/ idxPc # "exit" /\ MakeGroups
    \/ idxPc # "exit" /\ WalkStep
    \/ \E n \in DOMAIN blocks :
          \/ idxPc # "exit" /\ PlaneSpawn(n)
          \/ idxPc # "exit" /\ CollectBatch8(n)
          \/ idxPc # "exit" /\ BlockWrite(n)
          \/ BlockWriteFails(n)
          \/ \E w \in DOMAIN blocks[n].planes :
                \/ idxPc # "exit" /\ PlaneOpen(n, w)
                \/ idxPc # "exit" /\ PlaneReadClose(n, w)
                \/ idxPc # "exit" /\ PlaneSend(n, w)
                \/ PlaneReadFails(n, w)
    \/ idxPc # "exit" /\ IndexWait

SpecIndexFail == InitIndexFail /\ [][NextIndexFail]_vars

\* The file of block n in the output directory: "absent", "complete" with
\* all its rows behind the header, or "partial".
BlockFile(n) ==
    CASE blocks[n].pc = "failed" -> "partial"
      [] blocks[n].pc = "done" /\ ~flags.dryRun -> "complete"
      [] OTHER -> "absent"

\* ---------------------------------------------------- the flags of a run
\* getFlagPositiveFloat64, getFlagPositiveInt: the command ends unless the
\* value is above zero
getFlagPositive(v) == v > 0

\* getFlagNonNegativeInt: the command ends on a value below zero
getFlagNonNegative(v) == v >= 0

\* The flag values given to "kmcp index"; fpr is in tenths.
FlagValues ==
    [fpr : {-1, 0, 3, 10, 15}, numHashes : {0, 1, 256}, maxOpenFiles : {0, 1},
     kmerThreshold8 : {0, kmerThreshold8},
     kmerThresholdS : {kmerThreshold8, kmerThresholdS},
     numRepeats : {0, 1}, numBuckets : {-1, 0, 2}, sBlock00 : {0, 3},
     dryRun : BOOLEAN]

\* A run of "kmcp index" before its flags are read.
InitIndexFlags ==
    /\ SearchIdle /\ ProfileIdle
    /\ flags \in FlagValues
    /\ files \in {FileList(nS, 0, 0, 0) : nS \in 1..MaxFiles}
    /\ idxPc = "flags" /\ openFiles = 0
    /\ nextFile = 2 /\ getInfoPc = <<>> /\ chInfos = <<>> /\ fileInfos0 = <<>>
    /\ warnings = <<>>
    /\ fileInfoGroups = <<>> /\ sBlock = 0 /\ walkI = 0 /\ batch = <<>>
    /\ flag = FALSE /\ flag8 = FALSE /\ lastInfos = <<>> /\ blockNo = 0
    /\ blocks = <<>>

\* The checks of the flags, each ending the command through checkError.
FlagsAccepted(f) ==
    /\ getFlagPositive(f.fpr)
    /\ getFlagPositive(f.numHashes) /\ ~(f.numHashes > 255)
    /\ getFlagPositive(f.maxOpenFiles)
    /\ ~(f.kmerThreshold8 <= 0) /\ ~(f.kmerThresholdS <= 0)
    /\ ~(f.kmerThreshold8 >= f.kmerThresholdS)
    /\ getFlagPositive(f.numRepeats) /\ ~(f.numRepeats < 1)
    /\ getFlagNonNegative(f.numBuckets)
    /\ ~(f.numBuckets > 0 /\ f.sBlock00 > f.numBuckets)

\* The flags are read and checked.
CheckFlags ==
    /\ idxPc = "flags"
    /\ idxPc' = IF FlagsAccepted(flags) THEN "outdir" ELSE "rejected"
    /\ UNCHANGED <<flags, files, openFiles, checkVars, walkVars, blocks,
                   otherThanIndex>>

\* makeOutDir(outDir, force) unless the run is dry; the command goes on to
\* its first file.
MakeOutDir ==
    /\ idxPc = "outdir"
    /\ idxPc' = "start"
    /\ UNCHANGED <<flags, files, openFiles, checkVars, walkVars, blocks,
                   otherThanIndex>>

NextIndexFlags == CheckFlags \/ MakeOutDir

SpecIndexFlags == InitIndexFlags /\ [][NextIndexFlags]_vars

\* ------------------------------------------------------- claims on the index
\* k-mers of a bucket of a batch
BucketKmers(infos) == SumSeq([x \in DOMAIN infos |-> infos[x].Kmers])

\* plane workers of block n that have started and not finished
Running(n) ==
    Cardinality({w \in DOMAIN blocks[n].planes : blocks[n].planes[w].pc # "done"})

\* bit number bit of a byte is set
BitSet(byte, bit) == (byte \div (2 ^ bit)) % 2 = 1

\* C2: in a block that is written, for every column c and every code x read
\* from a file of that column, each position of x (x & (m-1) for one hash) is
\* a row of the block, a row has ceil(cols/8) bytes, and bit 7 - c mod 8 of
\* byte floor(c/8) of that row is set.
C2_NoFalseNegatives ==
    \A n \in DOMAIN blocks :
        (blocks[n].pc = "done" /\ ~flags.dryRun) =>
            \A c \in 0..(Len(blocks[n].batch) - 1) :
                \A x \in UNION {ReadCodes(blocks[n].batch[c + 1][f]) :
                                   f \in DOMAIN blocks[n].batch[c + 1]} :
                    \A pos \in (IF flags.numHashes = 1
                                THEN {BitAnd(x, blocks[n].numSigs - 1)}
                                ELSE hashLocationsFaster(x, flags.numHashes,
                                                         blocks[n].numSigs - 1)) :
                        /\ pos \in DOMAIN blocks[n].rows
                        /\ pos \in 0..(blocks[n].numSigs - 1)
                        /\ Len(blocks[n].rows[pos]) = (Len(blocks[n].batch) + 7) \div 8
                        /\ BitSet(blocks[n].rows[pos][(c \div 8) + 1], 7 - (c % 8))

\* C2 witness: a written block of more than 8 columns whose second plane
\* arrived before the first one and waited in buf.
C2_Witness ==
    \E n \in DOMAIN blocks :
        /\ blocks[n].pc = "done" /\ ~flags.dryRun
        /\ Len(blocks[n].batch) > 8
        /\ DOMAIN blocks[n].buf # {}

\* C7: a bucket of more than kmerThresholdS k-mers is the only bucket of its
\* block, and after the walk every such bucket is in a block.
C7_BigBucketAlone ==
    /\ \A n \in DOMAIN blocks : \A c \in DOMAIN blocks[n].batch :
          BucketKmers(blocks[n].batch[c]) > kmerThresholdS
              => Len(blocks[n].batch) = 1
    /\ idxPc \in {"wait", "done"} =>
          \A g \in DOMAIN fileInfoGroups :
              fileInfoGroups[g].Kmers > kmerThresholdS =>
                  \E n \in DOMAIN blocks : blocks[n].batch = <<fileInfoGroups[g].Infos>>

\* C7 witness: a block of one bucket above kmerThresholdS, emitted between
\* two other blocks while the block size was more than one.
C7_Witness ==
    \E n \in DOMAIN blocks :
        /\ 1 < n /\ n < Len(blocks)
        /\ Len(blocks[n].batch) = 1
        /\ BucketKmers(blocks[n].batch[1]) > kmerThresholdS
        /\ blocks[n].sBlock > 1

\* C8: no block holds more buckets than the block size in force while it was
\* assembled; when the first bucket above kmerThreshold8 is met the batch
\* assembled so far is emitted, and no block emitted after that holds more
\* than 8 buckets.
C8_BlockCap ==
    /\ \A n \in DOMAIN blocks :
          /\ Len(blocks[n].batch) <= blocks[n].sBlock
          /\ blocks[n].flag8 => Len(blocks[n].batch) <= 8
    /\ (flag8 /\ lastInfos # <<>>) => batch = <<>>

\* C8 witness: a block of more than 8 buckets emitted when the first bucket
\* above kmerThreshold8 was met, and a later block of exactly 8 buckets.
C8_Witness ==
    \E n \in DOMAIN blocks, n2 \in DOMAIN blocks :
        /\ n < n2
        /\ ~blocks[n].flag8 /\ Len(blocks[n].batch) > 8
        /\ Len(blocks[n].batch) < blocks[n].sBlock
        /\ blocks[n2].flag8 /\ Len(blocks[n2].batch) = 8

\* C9 as stated: a block has at most 64 columns and 8 planes, and a block
\* worker runs at most 8 plane workers.
C9_AtMost64Columns ==
    \A n \in DOMAIN blocks :
        /\ Len(blocks[n].batch) <= 64
        /\ blocks[n].nBatchFiles <= 8
        /\ Running(n) <= 8

\* C9 as the code has it: a block has at most as many columns as the block
\* size in force, in ceil(columns/8) planes of at most 8 columns each, and a
\* block worker runs at most min(threads, planes) plane workers at a time.
C9_ColumnsWithinBlockSize ==
    \A n \in DOMAIN blocks :
        /\ Len(blocks[n].batch) <= blocks[n].sBlock
        /\ blocks[n].sBlock <= Max({8, flags.sBlock00, Len(fileInfoGroups)})
        /\ blocks[n].nBatchFiles = (Len(blocks[n].batch) + 7) \div 8
        /\ Len(blocks[n].planes) <= blocks[n].nBatchFiles
        /\ \A w \in DOMAIN blocks[n].planes :
              Len(blocks[n].planes[w].batch8) \in 1..8
        /\ Running(n) <= flags.NumCPUs
        /\ Running(n) <= blocks[n].nBatchFiles

\* C9 witness: a written block of more than 64 columns in more than 8 planes.
C9_Witness ==
    \E n \in DOMAIN blocks :
        /\ blocks[n].pc = "done" /\ ~flags.dryRun
        /\ Len(blocks[n].batch) > 64
        /\ Len(blocks[n].planes) > 8
        /\ Len(blocks[n].rows[0]) > 8

\* C10: the .unik files open for reading never outnumber max-open-files.
C10_OpenFilesWithinLimit == openFiles <= flags.maxOpenFiles

\* plane j (from 1) of a block, computed from the files of buckets
\* 8(j-1) .. 8(j-1)+7 of its batch: bit 7 - k of byte r is set when a code of
\* the k-th of these buckets has r among its positions
PlaneSigs(blk, j) ==
    LET last == IF 8 * j > Len(blk.batch) THEN Len(blk.batch) ELSE 8 * j
        locs == [k \in 1..(last - 8 * (j - 1)) |->
                    UNION {Locations(code, blk.numSigs) :
                              code \in UNION {ReadCodes(blk.batch[8 * (j - 1) + k][f]) :
                                                 f \in DOMAIN blk.batch[8 * (j - 1) + k]}}]
    IN [r \in 0..(blk.numSigs - 1) |->
           SumSeq([k \in DOMAIN locs |-> IF r \in locs[k] THEN 2 ^ (8 - k) ELSE 0])]

\* C11: whatever the order in which the planes of a block arrive, the planes
\* assembled so far are those of plane workers 1, 2, ... of the block, made
\* from buckets 1-8, 9-16, ... of the batch, each once and none of them still
\* waiting; the names assembled so far are those of the first buckets of the
\* batch, 8 per plane; and row r of a written block is the bytes at row r of
\* planes 1, 2, ... in that order, as computed from the files of the buckets.
C11_PlanesInPlaneOrder ==
    \A n \in DOMAIN blocks :
        LET blk == blocks[n]
            np == Len(blk.sigsBlock)
            ncols == IF 8 * np > Len(blk.batch) THEN Len(blk.batch) ELSE 8 * np
        IN /\ np <= blk.nBatchFiles
           /\ \A j \in 1..np :
                 /\ blk.planes[j].pc = "done"
                 /\ blk.planes[j].batch8
                      = SubSeq(blk.batch, 8 * (j - 1) + 1,
                               IF 8 * j > Len(blk.batch) THEN Len(blk.batch) ELSE 8 * j)
                 /\ blk.sigsBlock[j] = blk.planes[j].sigs
                 /\ blk.pc # "done" => j \notin DOMAIN blk.buf
                 /\ \A x \in DOMAIN blk.chBatch8 : blk.chBatch8[x].id # j
           /\ blk.namesBlock = [c \in 1..ncols |-> Names(blk.batch[c])]
           /\ (blk.pc = "done" /\ ~flags.dryRun) =>
                 /\ np = blk.nBatchFiles
                 /\ DOMAIN blk.rows = 0..(blk.numSigs - 1)
                 /\ \A r \in DOMAIN blk.rows : DOMAIN blk.rows[r] = 1..np
                 /\ \A j \in 1..np :
                       LET sigs == PlaneSigs(blk, j)
                       IN \A r \in DOMAIN blk.rows : blk.rows[r][j] = sigs[r]

\* C11 witness: a written block of three planes of which the second and the
\* third arrived before the first and waited in buf together.
C11_Witness ==
    \E n \in DOMAIN blocks :
        /\ blocks[n].pc = "done" /\ ~flags.dryRun
        /\ Len(blocks[n].rows[0]) = 3
        /\ Cardinality(DOMAIN blocks[n].buf) = 2

\* C12: the element count of a block is the k-mer count of its largest
\* column, a column of several files counting the sum of its files; the
\* number of signatures is computed from it, and every plane of the block,
\* at work, on its way and assembled, has that many rows.
C12_SizedByLargestColumn ==
    \A n \in DOMAIN blocks :
        LET blk == blocks[n]
            sizes == {BucketKmers(blk.batch[c]) : c \in DOMAIN blk.batch}
        IN /\ blk.maxElements \in sizes
           /\ \A k \in sizes : k <= blk.maxElements
           /\ blk.numSigs = CalcSignatureSize(blk.maxElements)
           /\ \A w \in DOMAIN blk.planes :
                 DOMAIN blk.planes[w].sigs = 0..(blk.numSigs - 1)
           /\ \A x \in DOMAIN blk.chBatch8 :
                 DOMAIN blk.chBatch8[x].sigs = 0..(blk.numSigs - 1)
           /\ \A j \in DOMAIN blk.sigsBlock :
                 DOMAIN blk.sigsBlock[j] = 0..(blk.numSigs - 1)
           /\ (blk.pc = "done" /\ ~flags.dryRun) =>
                 DOMAIN blk.rows = 0..(blk.numSigs - 1)

\* C12 witness: a written block of two columns, one of them merging two
\* files, whose k-mers together are more than those of its largest column.
C12_Witness ==
    \E n \in DOMAIN blocks :
        /\ blocks[n].pc = "done" /\ ~flags.dryRun
        /\ Len(blocks[n].batch) >= 2
        /\ \E c \in DOMAIN blocks[n].batch : Len(blocks[n].batch[c]) >= 2
        /\ SumSeq([c \in DOMAIN blocks[n].batch |-> BucketKmers(blocks[n].batch[c])])
              > blocks[n].maxElements

\* C13: the assignment of references to blocks and columns is that of the
\* input list whatever the order in which the file-checking workers finish:
\* the walk is a function of the sorted buckets, and these are an order the
\* sort gives from the buckets of the file infos taken in the order of the
\* input list; blocks are numbered in the order the walk emits them.
C13_BuildDeterminism ==
    idxPc \in {"walk", "wait", "done"} =>
        /\ fileInfoGroups
              \in Arrangements(Buckets([p \in DOMAIN files |-> UnikFileInfo(files[p])]))
        /\ blockNo = Len(blocks)

\* C19: a run whose false positive rate is not within (0, 1), or whose
\* block size is above its number of buckets (the number of files when
\* --num-buckets is 0), ends at the checks of the flags: it never comes to
\* make the output directory.
C19_BadFlagsRejected ==
    LET nBuckets == IF flags.numBuckets = 0 THEN Len(files) ELSE flags.numBuckets
        bad == \/ flags.fpr <= 0 \/ flags.fpr >= 10
               \/ flags.sBlock00 > nBuckets
    IN bad => idxPc \in {"flags", "rejected"}

\* C20: once a build has ended on an error, no block file of the output
\* directory is partial: each is absent or complete.
C20_NoPartialBlockFile ==
    idxPc = "exit" => \A n \in DOMAIN blocks : BlockFile(n) # "partial"

\* the file infos of fileInfos0 whose name and fragment index an earlier one has
Duplicates ==
    {x \in DOMAIN fileInfos0 :
        \E y \in 1..(x - 1) : NameKey(fileInfos0[y]) = NameKey(fileInfos0[x])}

\* the number of columns, over all blocks, that hold the files of bucket g
ColumnsOf(g) ==
    Cardinality({nc \in {<<n, c>> : n \in DOMAIN blocks, c \in 1..LongRun} :
                    /\ nc[2] \in DOMAIN blocks[nc[1]].batch
                    /\ blocks[nc[1]].batch[nc[2]] = fileInfoGroups[g].Infos})

\* C21 as stated: once the build is done, every file whose name and fragment
\* index another file has too has been warned of, and so has every empty bucket.
C21_EachIsWarnedOf ==
    idxPc = "done" =>
        /\ \A p \in DOMAIN files :
               (\E q \in 1..(p - 1) : NameKey(files[q]) = NameKey(files[p]))
                   => \E w \in DOMAIN warnings : warnings[w].name = files[p].Name
        /\ \A g \in DOMAIN fileInfoGroups :
               fileInfoGroups[g].Kmers = 0
                   => \E w \in DOMAIN warnings : warnings[w].text = "empty bucket"

\* C21 amended: the warnings are those of the file infos that arrived while
\* the files were checked with a name and fragment index met before, one
\* each in the order of arrival, and no other; a build that loads its file
\* infos from the cache and an empty bucket give none. Once the build is
\* done every bucket with k-mers is a column of exactly one block and no
\* empty bucket is a column.
C21_DuplicatesWarnedEmptySkipped ==
    /\ LET dups == SeqOfSet(Duplicates)
       IN warnings = IF flags.hasInfoCache THEN <<>>
                     ELSE [i \in DOMAIN dups |->
                              [text |-> "duplicated name",
                               name |-> fileInfos0[dups[i]].Name]]
    /\ idxPc = "done" =>
           \A g \in DOMAIN fileInfoGroups :
               ColumnsOf(g) = IF fileInfoGroups[g].Kmers = 0 THEN 0 ELSE 1

\* C21 witness: a build that wrote its blocks after a warning of a duplicate
\* and with an empty bucket.
C21_Witness ==
    /\ idxPc = "done" /\ ~flags.dryRun /\ warnings # <<>>
    /\ \E g \in DOMAIN fileInfoGroups : fileInfoGroups[g].Kmers = 0
    /\ \E n \in DOMAIN blocks : blocks[n].pc = "done" /\ Len(blocks[n].batch) = 2

\* C22: every target written to the profile has at least minHicUreads reads
\* credited to it alone with a query coverage of minHicUreadsQcov or more,
\* and these are at least minHicUreadsProp of its uniquely matched reads.
C22_HighConfidenceGate ==
    profPc = "done" =>
        \A i \in DOMAIN targets :
            LET h == targets[i].Name
                n == IF h \in DOMAIN grouping.hic THEN grouping.hic[h] ELSE 0
            IN /\ n >= minHicUreads
               /\ n * minHicUreadsProp[2] >= minHicUreadsProp[1] * targets[i].SumUniqMatch

\* the least multiple of 8 that is at least q
RoundUp8(q) == CHOOSE r \in 0..(q + 7) : r % 8 = 0 /\ r >= q

\* the buckets divided by the CPUs of the machine, the fraction dropped
BucketsPerCPU == Len(fileInfoGroups) \div flags.runtimeNumCPU

NonEmptyInfos(gs) ==
    LET ne == SelectSeq(gs, LAMBDA g : g.Kmers # 0)
    IN [x \in DOMAIN ne |-> ne[x].Infos]

\* the place among the buckets with k-mers of the first one above t k-mers,
\* one past the last when there is none
FirstAbove(gs, t) ==
    LET ne == SelectSeq(gs, LAMBDA g : g.Kmers # 0)
        above == {x \in DOMAIN ne : ne[x].Kmers > t}
    IN IF above = {} THEN Len(ne) + 1 ELSE Min(above)

RECURSIVE Chunks(_, _)
\* s cut into runs of size elements, the last one shorter if need be
Chunks(s, size) ==
    IF s = <<>> THEN <<>>
    ELSE IF Len(s) <= size THEN <<s>>
    ELSE <<SubSeq(s, 1, size)>> \o Chunks(SubSeq(s, size + 1, Len(s)), size)

\* The blocks of the buckets gs under the first block size: the buckets
\* before the first one above kmerThreshold8 in runs of size, those from it
\* to the first one above kmerThresholdS in runs of 8, the rest one by one.
Partition(gs, size) ==
    LET infos == NonEmptyInfos(gs)
        p == FirstAbove(gs, kmerThreshold8)
        k == FirstAbove(gs, kmerThresholdS)
    IN Chunks(SubSeq(infos, 1, p - 1), size)
       \o Chunks(SubSeq(infos, p, k - 1), 8)
       \o [x \in 1..(Len(infos) - k + 1) |-> <<infos[k + x - 1]>>]

\* C24: the blocks of a run, dry or not, are set by its buckets, the
\* thresholds, --block-size and the CPUs of the machine alone: those emitted
\* so far are the first blocks of the partition, all of them once the walk
\* is over, each with the number of signatures of its largest bucket; and a
\* dry run has no output directory and no file in it.
C24_DryRunSameBlocks ==
    /\ idxPc \in {"walk", "wait", "done"} =>
          LET all == Partition(fileInfoGroups, BlockSize(Len(fileInfoGroups)))
          IN /\ Len(blocks) <= Len(all)
             /\ \A n \in DOMAIN blocks :
                   /\ blocks[n].batch = all[n]
                   /\ blocks[n].numSigs = CalcSignatureSize(MaxElements(all[n]))
             /\ idxPc \in {"wait", "done"} => Len(blocks) = Len(all)
    /\ flags.dryRun => OutputFiles = {}
    /\ (~flags.dryRun /\ idxPc = "done") =>
          OutputFiles = {<<"outDir", 0>>, <<"dbInfoFile", 0>>, <<"dbNameMappingFile", 0>>}
                        \cup {<<"block", n>> : n \in DOMAIN blocks}

\* C24 witness: a dry run that is done with three blocks, of more than 8
\* buckets, of 8 and of fewer.
C24_Witness ==
    /\ flags.dryRun /\ idxPc = "done" /\ Len(blocks) = 3
    /\ Len(blocks[1].batch) > 8 /\ Len(blocks[2].batch) = 8
    /\ \A n \in DOMAIN blocks : blocks[n].pc = "done" /\ blocks[n].rows = <<>>

\* C25: the profiler reads of every hit line the search writes the values of
\* the columns query, qLen, qKmers, FPR, hits, target, fragIdx, frags, mKmers
\* and qCov, and accepts the line exactly when its FPR is within --max-fpr and
\* its qCov is not below the threshold.
C25_SearchFeedsProfile ==
    \A i \in DOMAIN printed :
        LET l == printed[i]
            mr == parseMatchResult(ItemsRead(Columns(l)), maxFPR, minQcov)
        IN l.hits > 0 =>
              /\ ~mr.err
              /\ mr.ok <=> (l.FPR <= maxFPR /\ l.qCov >= minQcov)
              /\ mr.ok =>
                    /\ mr.Query = l.query /\ mr.QLen = l.qLen /\ mr.QKmers = l.qKmers
                    /\ mr.FPR = l.FPR /\ mr.Hits = l.hits /\ mr.Target = l.target
                    /\ mr.FragIdx = l.fragIdx /\ mr.IdxNum = l.frags
                    /\ mr.MKmers = l.mKmers /\ mr.QCov = l.qCov

\* C26: a plane buffer is written only by the plane worker that allocated
\* it and only until that worker sends it: a step that changes the buffer of
\* worker w is a step of w itself, between its "open" and its send, and it
\* changes no other buffer; a buffer that was sent never changes again; and
\* the collector and the block writer hold (in chBatch8, buf or sigsBlock)
\* only buffers whose worker has sent them and finished.
HandedOver(blk) ==
    {blk.chBatch8[x].id : x \in DOMAIN blk.chBatch8}
        \cup {blk.buf[x].id : x \in DOMAIN blk.buf}

HeldAfterHandOver(blk) ==
    /\ \A x \in DOMAIN blk.chBatch8 :
          LET b == blk.chBatch8[x]
          IN b.id \in DOMAIN blk.planes /\ blk.planes[b.id].pc = "done"
             /\ b.sigs = blk.planes[b.id].sigs
    /\ \A x \in DOMAIN blk.buf :
          LET b == blk.buf[x]
          IN b.id = x /\ x \in DOMAIN blk.planes /\ blk.planes[x].pc = "done"
             /\ b.sigs = blk.planes[x].sigs
    /\ \A x \in DOMAIN blk.sigsBlock :
          \E w \in DOMAIN blk.planes :
              blk.planes[w].pc = "done" /\ blk.sigsBlock[x] = blk.planes[w].sigs
    /\ blk.pc = "planes" =>
        Len(blk.sigsBlock) + Cardinality(HandedOver(blk))
           = Cardinality({w \in DOMAIN blk.planes : blk.planes[w].pc = "done"})

OneWriterStep(n) ==
    LET blk == blocks[n]
        after == blocks'[n]
        written == {w \in DOMAIN blk.planes : after.planes[w].sigs # blk.planes[w].sigs}
    IN /\ DOMAIN blk.planes \subseteq DOMAIN after.planes
       /\ Cardinality(written) <= 1
       /\ \A w \in written : blk.planes[w].pc = "open"
       /\ \A w \in DOMAIN blk.planes :
             blk.planes[w].pc = "done"
                => after.planes[w].pc = "done" /\ after.planes[w].sigs = blk.planes[w].sigs

C26_PlaneBufferOneOwner ==
    [][\A n \in DOMAIN blocks :
          /\ HeldAfterHandOver(blocks[n])
          /\ n \in DOMAIN blocks' /\ HeldAfterHandOver(blocks'[n])
          /\ OneWriterStep(n)]_vars

\* C26 witness: two plane workers of one block at once, one has sent its
\* buffer of set bits and the other is still filling its own
C26_Witness ==
    \E n \in DOMAIN blocks :
        \E w1, w2 \in DOMAIN blocks[n].planes :
            /\ w1 # w2
            /\ blocks[n].planes[w1].pc = "done"
            /\ w1 \in HandedOver(blocks[n])
            /\ \E r \in DOMAIN blocks[n].planes[w1].sigs : blocks[n].planes[w1].sigs[r] # 0
            /\ blocks[n].planes[w2].pc = "open"
            /\ \E r \in DOMAIN blocks[n].planes[w2].sigs : blocks[n].planes[w2].sigs[r] # 0

\* ------------------------------------------- a build of a hundred references
Hundred == 100       \* references of the build

\* Hundred references of which the first has Hundred times the k-mers of
\* every other one; the others are not above kmerThreshold8 and the large one
\* is above kmerThresholdS.
HundredList ==
    [p \in 1..Hundred |->
        [Path |-> p, Name |-> p, Index |-> 0,
         Kmers |-> IF p = 1 THEN Hundred * KmersOf("S") ELSE KmersOf("S")]]

\* Dry runs over the hundred references with the default block size on
\* machines of one and of four CPUs, and the build that checks its files.
HundredRuns ==
    { [files |-> HundredList,
       flags |-> Flags(1, rcpus, 1, 0, TRUE, TRUE, 0, 1)] : rcpus \in {1, 4} }
    \cup UncachedRuns

InitIndexHundred ==
    /\ SearchIdle /\ ProfileIdle
    /\ \E r \in HundredRuns : files = r.files /\ flags = r.flags
    /\ idxPc = "start" /\ openFiles = 0
    /\ nextFile = 2 /\ getInfoPc = <<>> /\ chInfos = <<>> /\ fileInfos0 = <<>>
    /\ warnings = <<>>
    /\ fileInfoGroups = <<>> /\ sBlock = 0 /\ walkI = 0 /\ batch = <<>>
    /\ flag = FALSE /\ flag8 = FALSE /\ lastInfos = <<>> /\ blockNo = 0
    /\ blocks = <<>>

SpecIndexHundred == InitIndexHundred /\ [][NextIndex]_vars

\* the bucket of the large reference
LargeBucket == <<HundredList[1]>>

\* the place of the large reference in the walk
LargePlace == Min({x \in DOMAIN fileInfoGroups : fileInfoGroups[x].Infos = LargeBucket})

HundredDone == files = HundredList /\ idxPc = "done"

\* C27 as stated: the build of the hundred references ends with two blocks,
\* one of the large reference alone and one of the other 99.
C27_LargeAloneOthersOneBlock ==
    HundredDone =>
        /\ Len(blocks) = 2
        /\ \E n \in DOMAIN blocks : blocks[n].batch = <<LargeBucket>>
        /\ \E n \in DOMAIN blocks : Len(blocks[n].batch) = Hundred - 1

\* C27: the large reference is in one block and alone in it; the others
\* that the walk meets before it are cut into blocks of the block size and
\* each one met after it has a block of its own, so that the others share one
\* block exactly when all of them come before the large one and the block
\* size is at least their number.
C27_LargeAloneOthersBySize ==
    HundredDone =>
        LET size == BlockSize(Hundred)
            k == LargePlace
            before == (k - 1 + size - 1) \div size
        IN /\ Len(blocks) = before + 1 + (Hundred - k)
           /\ Cardinality({n \in DOMAIN blocks :
                              \E c \in DOMAIN blocks[n].batch :
                                  blocks[n].batch[c] = LargeBucket}) = 1
           /\ blocks[before + 1].batch = <<LargeBucket>>
           /\ \A n \in 1..before : Len(blocks[n].batch) <= size
           /\ \A n \in (before + 2)..Len(blocks) : Len(blocks[n].batch) = 1
           /\ (Len(blocks) = 2) <=> (k = Hundred /\ size >= Hundred - 1)

\* C27 witness: the build has ended with the 99 others in the first block
\* and the large reference in the second
C27_Witness ==
    /\ HundredDone /\ Len(blocks) = 2
    /\ Len(blocks[1].batch) = Hundred - 1
    /\ blocks[2].batch = <<LargeBucket>>

\* C28: the header row is optional for the profiler: no line that the
\* profiler would accept as a hit is left out of the profile for being the
\* first line of a file without a header row.
C28_HeaderOptional == ~grouping.dropped

\* the buckets of the blocks emitted so far, in the order of the blocks
Emitted == Concat([n \in DOMAIN blocks |-> blocks[n].batch])

\* the buckets the walk holds: those of the open batch, then lastInfos
Held == batch \o (IF lastInfos = <<>> THEN <<>> ELSE <<lastInfos>>)

\* C29: the walk partitions the buckets. At every step the emitted blocks,
\* then the open batch, then the bucket held back are the buckets with
\* k-mers among those walked so far, each once and in walk order; when the
\* walk is over nothing is held, so the blocks hold every bucket with k-mers
\* exactly once and no empty bucket; no block is empty; and the block counter
\* b is the number of blocks, so they are numbered 1, 2, 3, ... without gaps.
C29_WalkPartitions ==
    idxPc \in {"walk", "wait", "done"} =>
        LET walked == SubSeq(fileInfoGroups, 1, Min({walkI, Len(fileInfoGroups)}))
            all == Emitted \o Held
        IN /\ all = NonEmptyInfos(walked)
           /\ \A x, y \in DOMAIN all : all[x] = all[y] => x = y
           /\ \A n \in DOMAIN blocks :
                 /\ blocks[n].batch # <<>>
                 /\ \A c \in DOMAIN blocks[n].batch :
                       MaxElements(<<blocks[n].batch[c]>>) > 0
           /\ blockNo = Len(blocks)
           /\ idxPc \in {"wait", "done"} =>
                 Held = <<>> /\ Emitted = NonEmptyInfos(fileInfoGroups)

\* C29 witness: a walk that is over, with an empty bucket walked before the
\* last bucket and left out of the two or more blocks it emitted
C29_Witness ==
    /\ idxPc = "done" /\ Len(blocks) >= 2
    /\ \E x \in 1..(Len(fileInfoGroups) - 1) : fileInfoGroups[x].Kmers = 0
    /\ \E x \in DOMAIN fileInfoGroups : fileInfoGroups[x].Kmers > kmerThreshold8

\* the place of the bucket infos among the buckets with k-mers, in walk order
PlaceOf(infos) ==
    LET ne == NonEmptyInfos(fileInfoGroups)
    IN Min({x \in DOMAIN ne : ne[x] = infos})

\* C30: once the walk has met a bucket above kmerThresholdS, that bucket
\* and every bucket with k-mers after it in walk order is emitted as a block
\* of exactly one bucket, whatever its k-mers: a block that holds a bucket
\* from the first very big one on holds nothing else, and when the walk is
\* over each of these buckets has its block.
C30_SinglesAfterVeryBig ==
    idxPc \in {"walk", "wait", "done"} =>
        LET ne == NonEmptyInfos(fileInfoGroups)
            k == FirstAbove(fileInfoGroups, kmerThresholdS)
        IN /\ \A n \in DOMAIN blocks :
                 (\E c \in DOMAIN blocks[n].batch : PlaceOf(blocks[n].batch[c]) >= k)
                    => Len(blocks[n].batch) = 1
           /\ idxPc \in {"wait", "done"} =>
                 \A x \in k..Len(ne) :
                     \E n \in DOMAIN blocks : blocks[n].batch = <<ne[x]>>

\* C30 witness: the walk is over; a small bucket and a bucket between the
\* thresholds came after the first very big one, each in a block of its own
C30_Witness ==
    /\ idxPc = "done"
    /\ LET ne == NonEmptyInfos(fileInfoGroups)
           k == FirstAbove(fileInfoGroups, kmerThresholdS)
       IN /\ k + 2 <= Len(ne)
          /\ \E x, y \in (k + 1)..Len(ne) :
                /\ MaxElements(<<ne[x]>>) <= kmerThreshold8
                /\ MaxElements(<<ne[y]>>) > kmerThreshold8
                /\ MaxElements(<<ne[y]>>) <= kmerThresholdS
                /\ \E n1, n2 \in DOMAIN blocks :
                      blocks[n1].batch = <<ne[x]>> /\ blocks[n2].batch = <<ne[y]>>

\* C31: the command is never past its wait for the block workers while a
\* block file of a build is unflushed or open.
C31_WaitCoversFlush ==
    (idxPc = "done" /\ ~flags.dryRun) => \A n \in DOMAIN blocks : blocks[n].flushed

\* the query indices in the sequence of indices s
IdxOf(s) == {s[x] : x \in DOMAIN s}

C32_Accounted ==
    /\ \A i, j \in DOMAIN forwarded : forwarded[i] = forwarded[j] => i = j
    /\ serPc = "range" => DOMAIN m \cap IdxOf(forwarded) = {}
    /\ serPc # "range" => DOMAIN m \subseteq IdxOf(forwarded)
    /\ Len(ch) <= Len(forwarded)
    /\ \A x \in DOMAIN ch :
          ch[x].QueryIdx = forwarded[Len(forwarded) - Len(ch) + x]

C32_Handled ==
    /\ Len(forwarded') >= Len(forwarded)
    /\ SubSeq(forwarded', 1, Len(forwarded)) = forwarded
    /\ (OutCh # <<>> /\ OutCh' = Tail(OutCh)) =>
          LET q == Head(OutCh).QueryIdx
          IN \/ q \in IdxOf(forwarded') \ IdxOf(forwarded)
             \/ q \in DOMAIN m' /\ m'[q] = Head(OutCh)
    /\ \A k \in DOMAIN m \ DOMAIN m' : k \in IdxOf(forwarded') \ IdxOf(forwarded)

C32_Terminated ==
    /\ mainPc = "exit" /\ serPc = "exit" /\ printPc = "exit"
    /\ InCh = <<>> /\ OutCh = <<>> /\ ch = <<>> /\ inflight = {}

\* C32: every result the engine emits is forwarded to the printer exactly
\* once, also when the result of some query never arrives: a result the
\* serializer takes from OutCh is sent on ch or kept in the map, a result
\* leaves the map only onto ch, what the final flush leaves in the map has
\* been sent, no index is sent twice, and ch carries what was sent in the
\* order it was sent. Under fair scheduling the serializer, the printer and
\* the main goroutine all end, with the channels drained.
C32_ForwardedOnceAndTerminates ==
    /\ []C32_Accounted
    /\ [][C32_Handled]_vars
    /\ <>C32_Terminated

\* C32 witness: the command has ended; the result of query 0 never arrived,
\* the results of all the later queries waited in the map and were
\* forwarded by the final flush
C32_Witness ==
    /\ C32_Terminated /\ nQueries = MaxQueries
    /\ serId = 0 /\ forwarded = [x \in 1..(MaxQueries - 1) |-> x]
    /\ DOMAIN m = 1..(MaxQueries - 1)

\* C34: whenever the serializer waits for the next arrival, the result of
\* the cursor is not in the map and every index in the map is above the
\* cursor.
C34_ReleasedAsEarlyAsPossible ==
    serPc = "range" => (serId \notin DOMAIN m /\ \A k \in DOMAIN m : k > serId)

\* C35: no access to the per-fragment counters of a target is out of range:
\* the profiler never stops on an index that is negative or not below the
\* number of counters of the target.
C35_CountersInRange == profPc # "panic"

RECURSIVE CreditedLength(_, _)
\* the sum of FragLens over the targets hs of the profile p: the query
\* lengths of the hit lines credited so far
CreditedLength(p, hs) ==
    IF hs = {} THEN 0
    ELSE LET h == CHOOSE x \in hs : TRUE
         IN SumSeq(p[h].FragLens) + CreditedLength(p, hs \ {h})

RECURSIVE PendingHits(_, _)
\* the number of hits held in the targets hs of ma
PendingHits(ma, hs) ==
    IF hs = {} THEN 0
    ELSE LET h == CHOOSE x \in hs : TRUE
         IN Len(ma[h]) + PendingHits(ma, hs \ {h})

\* the query length of every line of the input
LineQLen == Item(InputLine("q1", 0, "A", 0, 1, 90), 1)

\* every accepted line is either credited or held in matches, never both
C36_Accounted ==
    /\ profPc = "scan" =>
          /\ CreditedLength(profile, DOMAIN profile)
                + LineQLen * PendingHits(matches, DOMAIN matches) = LineQLen * linesRead
          /\ \A h \in DOMAIN matches :
                \A x \in DOMAIN matches[h] : matches[h][x].Query = prevQuery
          /\ firtLine => (matches = <<>> /\ prevQuery = "")
    /\ profPc = "filter" =>
          CreditedLength(profile, DOMAIN profile) = LineQLen * linesRead

\* the hits are credited at the first accepted line of another query and
\* at the end of the file, and at no other step
C36_CreditedAtBoundary ==
    /\ (profPc = "scan" /\ profile' # profile) =>
          \/ prevQuery' # prevQuery
          \/ pFile' # pFile
          \/ profPc' = "filter"
    /\ (profPc = "scan" /\ profPc' = "scan" /\ pFile' = pFile
          /\ prevQuery' # prevQuery /\ prevQuery # "") =>
          /\ PendingHits(matches', DOMAIN matches') = 1
          /\ CreditedLength(profile', DOMAIN profile')
                = CreditedLength(profile, DOMAIN profile)
                  + LineQLen * PendingHits(matches, DOMAIN matches)
    /\ (profPc = "scan" /\ (pFile' # pFile \/ profPc' = "filter")) =>
          CreditedLength(profile', DOMAIN profile') = LineQLen * linesRead

\* C36: while the command runs and when it has read its input, every
\* accepted hit line has been credited exactly once or is held with the
\* other hits of the current query; the held hits are credited at the first
\* accepted line of another query and at the end of the file, so that
\* nothing is held when the next file starts.
C36_CreditedExactlyOnce ==
    []C36_Accounted /\ [][C36_CreditedAtBoundary]_vars

\* C36 witness: the first file has ended with two or more hits of its last
\* query held, they are credited and the second file starts with nothing held
C36_Witness ==
    /\ profPc = "scan" /\ pFile = 2 /\ firtLine /\ matches = <<>>
    /\ linesRead >= 3
    /\ CreditedLength(profile, DOMAIN profile) = LineQLen * linesRead
    /\ Cardinality(DOMAIN profile) = 2

\* the lines of LineSet over the FPR threshold or under the query coverage
\* threshold
FilteredLines ==
    {line \in LineSet : Item(line, 3) > maxFPR \/ Item(line, 9) < minQcov}

\* C37: a line rejected by the FPR filter or the query coverage filter
\* changes nothing: whenever the scanner may deliver such a line after the
\* first line of a file, the iteration leaves the profile, the hits of the
\* current query, the previous-query marker, the number of accepted lines
\* and the state of the command as they are.
C37_FilteredLineChangesNothing ==
    (profPc = "scan" /\ ~firtLine) =>
        \A line \in FilteredLines :
            LET r == Scan(line)
            IN /\ r.profile = profile /\ r.matches = matches
               /\ r.prevQuery = prevQuery /\ r.linesRead = linesRead
               /\ r.profPc = profPc /\ r.firtLine = firtLine
               /\ r.grouping = grouping

\* C37 witness: both kinds of filtered line exist, and the scanner is in the
\* middle of the hits of query q2 on target B, after the hits of q1 were
\* credited: a filtered line of q1 and one of q2 on B may come next
C37_Witness ==
    /\ profPc = "scan" /\ ~firtLine /\ linesRead < MaxLines
    /\ \E l1, l2 \in FilteredLines :
          /\ Item(l1, 3) > maxFPR /\ Item(l1, 0) = "q1"
          /\ Item(l2, 9) < minQcov /\ Item(l2, 0) = "q2" /\ Item(l2, 5) = "B"
    /\ prevQuery = "q2" /\ "B" \in DOMAIN matches
    /\ DOMAIN profile # {}

\* the main goroutine is past wg0.Wait(), every block worker and every plane
\* worker is past its last statement, no token is held in tokens0, tokens or
\* tokensOpenFiles, no file is open, and chBatch8 and chInfos are drained
C33_AllReleased ==
    /\ idxPc = "done"
    /\ tokens0 = 0 /\ tokensOpenFiles = 0 /\ openFiles = 0 /\ chInfos = <<>>
    /\ \A n \in DOMAIN blocks :
          /\ blocks[n].pc = "done" /\ tokens(n) = 0
          /\ blocks[n].chBatch8 = <<>>
          /\ \A w \in DOMAIN blocks[n].planes : blocks[n].planes[w].pc = "done"
          /\ flags.dryRun \/ Len(blocks[n].planes) = blocks[n].nBatchFiles

RECURSIVE Submitted(_, _)
\* the queries the files fs hand in: a file read record by record hands in
\* the records before its failing Read, a file read as a whole one query
Submitted(fs, whole) ==
    IF fs = <<>> THEN 0
    ELSE (IF whole THEN 1
          ELSE IF Head(fs).errAt = 0 THEN Head(fs).records
          ELSE Head(fs).errAt - 1)
         + Submitted(Tail(fs), whole)

\* main has handed in, with the indices 0, 1, ... in this order, the queries
\* of the files it has finished and the records read from the file it reads
C38_Reading ==
    /\ sendId = Submitted(SubSeq(reader.files, 1, reader.file - 1), reader.wholeFile)
                + (IF reader.wholeFile THEN 0 ELSE reader.rec)
    /\ LET taken == inflight \cup {OutCh[x].QueryIdx : x \in DOMAIN OutCh}
                        \cup DOMAIN m \cup IdxOf(forwarded)
       IN /\ Range(InCh) \cup taken = 0..(sendId - 1)
          /\ Len(InCh) + Cardinality(taken) = sendId
    /\ mainPc # "send" => reader.file = Len(reader.files) + 1

\* the command has ended: every query of every file, the files after a
\* failing Read included, was sent to the printer in the order of the
\* indices 0, 1, ... and its line is written
C38_Completed ==
    /\ mainPc = "exit" /\ serPc = "exit" /\ printPc = "exit"
    /\ forwarded = [x \in 1..Submitted(reader.files, reader.wholeFile) |-> x - 1]
    /\ [x \in DOMAIN printed |-> printed[x].queryIdx] = forwarded

\* C38: an error other than io.EOF while a query file is read ends the
\* reading of that file only: the records read before it are submitted with
\* consecutive indices, the next file is read and its queries carry on the
\* numbering without a gap, and under fair scheduling the command ends with
\* all of them searched and printed.
C38_ReadErrorEndsFileOnly == []C38_Reading /\ <>C38_Completed

\* C38 witness: the first of two files fails at its second Read and has a
\* second record that is never read, the second file has a record, and the
\* command has ended with the two queries 0 and 1 printed
C38_Witness ==
    /\ C38_Completed /\ ~reader.wholeFile
    /\ Len(reader.files) = 2
    /\ reader.files[1].errAt = 2 /\ reader.files[1].records >= 2
    /\ reader.files[2].records >= 1 /\ reader.files[2].errAt = 0
    /\ forwarded = <<0, 1>>

\* a step of the collector of chInfos, of the serializer and of the printer,
\* each before it has signalled its end
CollectorStep ==
    idxPc = "check" /\ chInfos # <<>> /\ chInfos' = Tail(chInfos)

SerializerStep == serPc = "range" /\ (OutCh' = Tail(OutCh) \/ serPc' = "sendDone")

PrinterStep == printPc = "range" /\ ch # <<>> /\ ch' = Tail(ch)

\* main reads the accumulators only after the collector has signalled: the
\* file infos from the buckets on, when chInfos is closed and drained and
\* every getInfo goroutine has ended; total and matched after <-done and
\* <-donePrint, when the serializer and the printer have ended
C39_ReadAfterSignal ==
    /\ idxPc \in {"buckets", "walk", "wait", "done"} =>
          (chInfos = <<>> /\ tokensGetInfo = 0)
    /\ mainPc = "exit" => (serPc = "exit" /\ printPc = "exit")

====
